---- MODULE Spec2Model ----
(***************************************************************************)
(* The query dispatch and caching engine of the OpenObserve Grafana data   *)
(* source (src/src/datasource.ts) as a state machine.                      *)
(*                                                                         *)
(* JavaScript objects that the code shares by reference live in heaps:     *)
(* reqHeap holds the request objects returned by buildQuery, entries holds *)
(* the CachedQuery objects.  cachedLogsQuery, cachedHistogramQuery and     *)
(* histogramQuery are references into those heaps (0 is null/undefined).   *)
(* A task is one started fetch pipeline (processLogsQuery or               *)
(* processVolumeOrDashboardQuery) suspended at a backend call; a caller is *)
(* one promise returned by processSingleQuery.                             *)
(***************************************************************************)
EXTENDS Integers, Sequences, FiniteSets, TLC

VARIABLES streamFields, histogramQuery, reqHeap, entries, cachedLogsQuery,
          cachedHistogramQuery, tasks, callers, batches,
          \* one application of a pure function of the Request Builder or the Result
          \* Shaper: its arguments and, once applied, its result
          applied

vars == <<streamFields, histogramQuery, reqHeap, entries, cachedLogsQuery,
          cachedHistogramQuery, tasks, callers, batches, applied>>

(***************************************************************************)
(* Bounds of the model.                                                    *)
(***************************************************************************)
\* targets resolved over a whole run of Spec (all batches together)
MaxCallers == 2
\* targets resolved over a whole run of SpecPipeline
PipelineCallers == 1
\* targets resolved over a whole run of SpecReplace
ReplaceCallers == 3
\* targets resolved over a whole run of SpecBuild
BuildCallers == 1
\* targets resolved over a whole run of SpecRoute
RouteCallers == 1
\* targets resolved over a whole run of SpecSide
SideCallers == 3
\* query() resolutions in SpecPair
PairCallers == 3
\* targets in one query() batch
MaxBatch == 2
\* partitions in one partition-discovery response
MaxPartitions == 2
\* rows of the row set handed to the Result Shaper in SpecShaper
MaxRows == 2

(***************************************************************************)
(* Values.                                                                 *)
(***************************************************************************)
REF_ID_STARTER_LOG_VOLUME == "log-volume-"

\* an absent (deleted / never set) numeric property of a request
Absent == -1

\* target.refId.includes(REF_ID_STARTER_LOG_VOLUME); a refId is <<prefix, rest>>
includesLogVolume(refId) == refId[1] = REF_ID_STARTER_LOG_VOLUME

\* a stream field whose entry is null (updateStreamFields takes any[])
NullField == "<null>"

\* what buildQuery returns from its catch block (undefined), in the shape of a request
UndefReq ==
  [defined |-> FALSE, sql |-> <<"", "", "">>, start_time |-> Absent, end_time |-> Absent,
   size |-> Absent, sql_mode |-> "", histogram_interval |-> Absent]

\* the '' a fresh CachedQuery has as requestQuery
NoKey == [reqData |-> UndefReq, displayMode |-> "", type |-> <<"", "">>]

NoFrame == [mode |-> "", refId |-> <<"", "">>, rows |-> <<>>, fields |-> <<>>]

NoError ==
  [kind |-> "", hasData |-> FALSE, code |-> 0, message |-> "", error_detail |-> "",
   statusText |-> ""]

\* a promise: pending, fulfilled with a frame, or rejected with an error
PendingOutcome == [status |-> "pending", frame |-> NoFrame, error |-> NoError]
Fulfilled(f) == [status |-> "fulfilled", frame |-> f, error |-> NoError]
Rejected(e) == [status |-> "rejected", frame |-> NoFrame, error |-> e]

\* the TypeError a property read of undefined throws
TypeErrorOf(what) ==
  [kind |-> "TypeError", hasData |-> FALSE, code |-> 0, message |-> what,
   error_detail |-> "", statusText |-> ""]

\* response.hits: an array of rows, or undefined when the response has no hits
Hits(rows) == [defined |-> TRUE, rows |-> rows]
NoHits == [defined |-> FALSE, rows |-> <<>>]

(***************************************************************************)
(* Request Builder.                                                        *)
(***************************************************************************)
\* the where clause after the field-quoting pass: a token equal to a stream
\* field name is wrapped in double quotes
quoteFields(query, sf) ==
  IF \E i \in 1..Len(sf) : sf[i] = query THEN "\"" \o query \o "\"" ELSE query

\* a builder that asks for the sample count in every context
buildQuery_SizeInEveryContext(queryData, timestamps, sf, app) ==
  LET size == 300
      req == [defined |-> TRUE,
              sql |-> <<"select", "[INDEX_NAME]", "[WHERE_CLAUSE]">>,
              start_time |-> timestamps.startTimeInMicro,
              end_time |-> timestamps.endTimeInMirco,
              size |-> size, sql_mode |-> "", histogram_interval |-> Absent]
  IN IF queryData.sqlMode
       THEN [req EXCEPT !.sql = <<"native", queryData.query, "">>, !.sql_mode = "full"]
       ELSE IF queryData.query # ""
              THEN IF \E i \in 1..Len(sf) : sf[i] = NullField
                     \* field.name of a null field throws inside the try block
                     THEN UndefReq
                     ELSE [req EXCEPT !.sql = <<"select", queryData.stream,
                                                " WHERE " \o quoteFields(queryData.query, sf)>>]
              ELSE [req EXCEPT !.sql = <<"select", queryData.stream, "">>]

buildQuery(queryData, timestamps, sf, app) ==
  LET size == IF app # "explore" THEN 0 ELSE 300
      req == [defined |-> TRUE,
              sql |-> <<"select", "[INDEX_NAME]", "[WHERE_CLAUSE]">>,
              start_time |-> timestamps.startTimeInMicro,
              end_time |-> timestamps.endTimeInMirco,
              size |-> size, sql_mode |-> "", histogram_interval |-> Absent]
  IN IF queryData.sqlMode
       THEN [req EXCEPT !.sql = <<"native", queryData.query, "">>, !.sql_mode = "full"]
       ELSE IF queryData.query # ""
              THEN IF \E i \in 1..Len(sf) : sf[i] = NullField
                     \* field.name of a null field throws inside the try block
                     THEN UndefReq
                     ELSE [req EXCEPT !.sql = <<"select", queryData.stream,
                                                " WHERE " \o quoteFields(queryData.query, sf)>>]
              ELSE [req EXCEPT !.sql = <<"select", queryData.stream, "">>]

(***************************************************************************)
(* The filter rewrite of buildQuery, character by character.  A text is a  *)
(* sequence of one-character strings.                                      *)
(***************************************************************************)
Quotes == {"\"", "'"}

\* the positions of quote characters in text
quotePositions(text) == {i \in 1..Len(text) : text[i] \in Quotes}

lowest(S) == CHOOSE i \in S : \A j \in S : i <= j

\* the lookahead (?=(?:[^"']*"[^"']*"')*[^"']*$) at the text that follows a match:
\* groups of a double-quoted run followed by an apostrophe, then no quote to the end
RECURSIVE lookahead(_)
lookahead(rest) ==
  LET q == quotePositions(rest)
  IN IF q = {} THEN TRUE
     ELSE LET i == lowest(q)
              q2 == {j \in q : j > i}
          IN /\ rest[i] = "\""
             /\ q2 # {}
             /\ LET j == lowest(q2)
                IN /\ rest[j] = "\""
                   /\ j + 1 <= Len(rest)
                   /\ rest[j + 1] = "'"
                   /\ lookahead(SubSeq(rest, j + 2, Len(rest)))

\* text.replace(/pattern(?=...)/g, replacement) from position i on
RECURSIVE replaceGuarded(_, _, _, _)
replaceGuarded(text, i, pattern, replacement) ==
  IF i > Len(text) THEN <<>>
  ELSE IF /\ i + Len(pattern) - 1 <= Len(text)
          /\ SubSeq(text, i, i + Len(pattern) - 1) = pattern
          /\ lookahead(SubSeq(text, i + Len(pattern), Len(text)))
         THEN replacement \o replaceGuarded(text, i + Len(pattern), pattern, replacement)
         ELSE <<text[i]>> \o replaceGuarded(text, i + 1, pattern, replacement)

\* the seven replace calls on whereClause, in their order
spaceOperators(text) ==
  LET r1 == replaceGuarded(text, 1, <<"=">>, <<" ", "=">>)
      r2 == replaceGuarded(r1, 1, <<">">>, <<" ", ">">>)
      r3 == replaceGuarded(r2, 1, <<"<">>, <<" ", "<">>)
      r4 == replaceGuarded(r3, 1, <<"!", "=">>, <<" ", "!", "=">>)
      r5 == replaceGuarded(r4, 1, <<"!", " ", "=">>, <<" ", "!", "=">>)
      r6 == replaceGuarded(r5, 1, <<"<", " ", "=">>, <<" ", "<", "=">>)
  IN replaceGuarded(r6, 1, <<">", " ", "=">>, <<" ", ">", "=">>)

\* text.split(' ')
RECURSIVE split(_)
split(text) ==
  LET sp == {i \in 1..Len(text) : text[i] = " "}
  IN IF sp = {} THEN <<text>>
     ELSE <<SubSeq(text, 1, lowest(sp) - 1)>> \o split(SubSeq(text, lowest(sp) + 1, Len(text)))

\* tokens.join(' ')
RECURSIVE join(_)
join(tokens) ==
  IF Len(tokens) = 0 THEN <<>>
  ELSE IF Len(tokens) = 1 THEN tokens[1]
  ELSE tokens[1] \o <<" ">> \o join(Tail(tokens))

\* the forEach over parsedSQL for one field: a node equal to the field name loses
\* its double quotes and is wrapped in double quotes
quoteField(parsedSQL, name) ==
  [k \in 1..Len(parsedSQL) |->
     IF parsedSQL[k] = name
       THEN <<"\"">> \o SelectSeq(parsedSQL[k], LAMBDA ch : ch # "\"") \o <<"\"">>
       ELSE parsedSQL[k]]

\* streamFields.forEach over the first n fields
RECURSIVE quoteTokens(_, _, _)
quoteTokens(parsedSQL, names, n) ==
  IF n = 0 THEN parsedSQL ELSE quoteField(quoteTokens(parsedSQL, names, n - 1), names[n])

\* query.trim().length
isBlank(text) == \A i \in 1..Len(text) : text[i] = " "

\* the text put in the place of [WHERE_CLAUSE] for the expression query
whereClause(query, names) ==
  IF isBlank(query) THEN <<>>
  ELSE <<" ", "W", "H", "E", "R", "E", " ">>
         \o join(quoteTokens(split(spaceOperators(query)), names, Len(names)))

(***************************************************************************)
(* Values of response rows.  A JavaScript number n >= 0 is kept as the     *)
(* pair hi, lo with n = hi * 1000000 + lo and lo < 1000000, so that        *)
(* microsecond timestamps fit the integers of the model.                   *)
(***************************************************************************)
Num(hi, lo) == [kind |-> "number", hi |-> hi, lo |-> lo, text |-> ""]
Str(text) == [kind |-> "string", hi |-> 0, lo |-> 0, text |-> text]
Undefined == [kind |-> "undefined", hi |-> 0, lo |-> 0, text |-> ""]
NaN == [kind |-> "NaN", hi |-> 0, lo |-> 0, text |-> ""]

\* a > b on numbers
greater(a, b) == a.hi > b.hi \/ (a.hi = b.hi /\ a.lo > b.lo)

\* value * 1000
timesThousand(value) ==
  Num(value.hi * 1000 + (value.lo * 1000) \div 1000000, (value.lo * 1000) % 1000000)

\* Math.floor(value / 1000)
floorOfThousandth(value) ==
  Num(value.hi \div 1000, (value.hi % 1000) * 1000 + value.lo \div 1000)

\* utils/zincutils convertTimeToMs: microseconds to whole milliseconds
convertTimeToMs(value) ==
  IF value.kind = "number" THEN floorOfThousandth(value) ELSE NaN

\* new Date(text).getTime() of the date strings of the model, NaN for any other text
dateOf(text) ==
  IF text \in {"2024-01-01T00:00:00", "2024-01-01T00:00:00Z"} THEN Num(1704067, 200000)
  ELSE NaN

\* a conversion with the seconds test first and inclusive
convertToTimeMs_SecondsUpToThreshold(value) ==
  IF value.kind = "number"
    THEN IF ~greater(value, Num(10000, 0)) THEN timesThousand(value)
         ELSE IF greater(value, Num(500000, 0)) THEN convertTimeToMs(value)
         ELSE value
    ELSE IF value.kind = "string" THEN dateOf(value.text)
    ELSE NaN

convertToTimeMs(value) ==
  IF value.kind = "number"
    THEN IF greater(value, Num(500000, 0)) THEN convertTimeToMs(value)
         ELSE IF greater(Num(10000, 0), value) THEN timesThousand(value)
         ELSE value
    ELSE IF value.kind = "string" THEN dateOf(value.text)
    ELSE NaN

(***************************************************************************)
(* Result Shaper in full: the columns of a frame and their values.  A row  *)
(* is the sequence of its <<key, value>> members in the order of           *)
(* Object.keys.                                                            *)
(***************************************************************************)
keysOf(log) == [k \in 1..Len(log) |-> log[k][1]]

\* log[key]
get(log, key) ==
  IF \E k \in 1..Len(log) : log[k][1] = key
    THEN log[CHOOSE k \in 1..Len(log) : log[k][1] = key][2]
    ELSE Undefined

\* JSON.stringify(log): the members of the text, without the undefined ones
stringify(log) ==
  [kind |-> "json", hi |-> 0, lo |-> 0, text |-> "",
   members |-> SelectSeq(log, LAMBDA member : member[2].kind # "undefined")]

isTimestampValue(value) ==
  \/ value.kind = "number" /\ greater(value, Num(1000, 0))
  \/ value.kind = "string" /\ dateOf(value.text) # NaN

\* the first key of the first row whose value looks like a timestamp, "" for null
detectTimestampField(data) ==
  IF Len(data) = 0 THEN ""
  ELSE LET firstRow == data[1]
           found == {k \in 1..Len(firstRow) : isTimestampValue(firstRow[k][2])}
       IN IF found = {} THEN "" ELSE firstRow[lowest(found)][1]

getFieldsFromData(data) == IF Len(data) = 0 THEN <<>> ELSE keysOf(data[1])

inferFieldType(value) ==
  IF value.kind \in {"number", "NaN"} THEN "number"
  ELSE IF value.kind = "boolean" THEN "boolean"
  ELSE "string"

\* the object getField builds for a row, read at property name
getField(log, columns, timestampColumn, name) ==
  LET written == {i \in 1..Len(columns) :
                    IF columns[i] = timestampColumn THEN name = "Time" ELSE name = columns[i]}
  IN IF written = {} THEN Undefined
     ELSE LET i == CHOOSE j \in written : \A k \in written : k <= j
          IN IF columns[i] = timestampColumn THEN convertToTimeMs(get(log, columns[i]))
             ELSE get(log, columns[i])

\* a logs shaper that takes its columns from the keys of the first row
logsFrame_ColumnsOfFirstRow(data, refId, sf, timestampColumn) ==
  [refId |-> refId, preferredVisualisationType |-> "logs", length |-> Len(data),
   fields |->
     <<[name |-> "Time", type |-> "time",
        values |-> [r \in 1..Len(data) |-> convertTimeToMs(get(data[r], timestampColumn))]],
       [name |-> "Content", type |-> "string",
        values |-> [r \in 1..Len(data) |-> stringify(data[r])]]>>
     \o [k \in 1..Len(getFieldsFromData(data)) |->
           [name |-> getFieldsFromData(data)[k], type |-> "field",
            values |-> [r \in 1..Len(data) |-> get(data[r], getFieldsFromData(data)[k])]]]]

\* getLogsDataFrame; the type of a stream field's column (getFieldType of
\* utils/zincutils) is left open
logsFrame(data, refId, sf, timestampColumn) ==
  [refId |-> refId, preferredVisualisationType |-> "logs", length |-> Len(data),
   fields |->
     <<[name |-> "Time", type |-> "time",
        values |-> [r \in 1..Len(data) |-> convertTimeToMs(get(data[r], timestampColumn))]],
       [name |-> "Content", type |-> "string",
        values |-> [r \in 1..Len(data) |-> stringify(data[r])]]>>
     \o [k \in 1..Len(sf) |->
           [name |-> sf[k], type |-> "field",
            values |-> [r \in 1..Len(data) |-> get(data[r], sf[k])]]]]

\* the columns of a graph frame for the field names fieldNames
graphColumns(data, refId, fieldNames, timeFieldName) ==
  [refId |-> refId, preferredVisualisationType |-> "graph", length |-> Len(data),
   fields |->
     [i \in 1..Len(fieldNames) |->
        LET name == IF fieldNames[i] = timeFieldName THEN "Time" ELSE fieldNames[i]
        IN [name |-> name,
            type |-> IF fieldNames[i] = timeFieldName THEN "time"
                     ELSE IF Len(data) > 0 THEN inferFieldType(get(data[1], fieldNames[i]))
                     ELSE "number",
            values |-> [r \in 1..Len(data) |->
                          getField(data[r], fieldNames, timeFieldName, name)]]]]

\* a graph shaper without the default fields of the empty state
graphFrame_NoDefaultFields(data, refId, timestampColumn) ==
  LET detectedTimeField == detectTimestampField(data)
      timeFieldName == IF detectedTimeField # "" THEN detectedTimeField ELSE timestampColumn
  IN graphColumns(data, refId, getFieldsFromData(data), timeFieldName)

\* getGraphDataFrame
graphFrame(data, refId, timestampColumn) ==
  LET detectedTimeField == detectTimestampField(data)
      timeFieldName == IF detectedTimeField # "" THEN detectedTimeField ELSE timestampColumn
      fieldNames == IF Len(getFieldsFromData(data)) = 0
                      THEN <<"zo_sql_key", "zo_sql_num", "x_axis_1">>
                      ELSE getFieldsFromData(data)
  IN graphColumns(data, refId, fieldNames, timeFieldName)

(***************************************************************************)
(* Result Shaper, as far as the dispatch layer depends on it: the mode of  *)
(* the frame, its rows, and the stream-field columns of a logs frame.      *)
(***************************************************************************)
\* [threw, frame]: streamFields.forEach reads field.name, data.forEach reads data
getLogsDataFrame(data, target, sf) ==
  IF (\E i \in 1..Len(sf) : sf[i] = NullField) \/ ~data.defined
    THEN [threw |-> TRUE, frame |-> NoFrame]
    ELSE [threw |-> FALSE,
          frame |-> [mode |-> "logs", refId |-> target.refId, rows |-> data.rows,
                     fields |-> <<"Time", "Content">> \o sf]]

\* [threw, frame]: data.length of undefined throws
getGraphDataFrame(data, target) ==
  IF ~data.defined
    THEN [threw |-> TRUE, frame |-> NoFrame]
    ELSE [threw |-> FALSE,
          frame |-> [mode |-> "graph", refId |-> target.refId, rows |-> data.rows,
                     fields |-> IF data.rows = <<>>
                                  THEN <<"Time", "zo_sql_num", "x_axis_1">>
                                  ELSE <<"Time", "zo_sql_num">>]]

\* target.displayMode || 'auto'  and  target.displayMode ?? 'auto'
modeOf(target) == IF target.displayMode = "undefined" THEN "auto" ELSE target.displayMode

(***************************************************************************)
(* The data source instance as one record, for the operators below.        *)
(***************************************************************************)
DS ==
  [streamFields |-> streamFields, histogramQuery |-> histogramQuery, reqHeap |-> reqHeap,
   entries |-> entries, cachedLogsQuery |-> cachedLogsQuery,
   cachedHistogramQuery |-> cachedHistogramQuery, tasks |-> tasks, callers |-> callers,
   batches |-> batches]

Commit(d) ==
  /\ streamFields' = d.streamFields
  /\ histogramQuery' = d.histogramQuery
  /\ reqHeap' = d.reqHeap
  /\ entries' = d.entries
  /\ cachedLogsQuery' = d.cachedLogsQuery
  /\ cachedHistogramQuery' = d.cachedHistogramQuery
  /\ tasks' = d.tasks
  /\ callers' = d.callers
  /\ batches' = d.batches
  /\ applied' = applied

\* the value of a request object; reqData undefined is reference 0
reqValue(d, ref) == IF ref = 0 THEN UndefReq ELSE d.reqHeap[ref]

\* a fresh CachedQuery object: requestQuery '', isFetching false, data null, promise null
FreshCachedQuery ==
  [requestQuery |-> NoKey, isFetching |-> FALSE, data |-> FALSE,
   handle |-> PendingOutcome, settles |-> 0]

resetHistogramQueryCache(d) ==
  [d EXCEPT !.entries = Append(@, FreshCachedQuery),
            !.cachedHistogramQuery = Len(d.entries) + 1]

\* one reset for both slots
resetLogsQueryCache_Both(d) ==
  [d EXCEPT !.entries = @ \o <<FreshCachedQuery, FreshCachedQuery>>,
            !.cachedLogsQuery = Len(d.entries) + 1,
            !.cachedHistogramQuery = Len(d.entries) + 2]

resetLogsQueryCache(d) ==
  [d EXCEPT !.entries = Append(@, FreshCachedQuery),
            !.cachedLogsQuery = Len(d.entries) + 1]

slotOf(d, isHistogramQuery) ==
  IF isHistogramQuery THEN d.cachedHistogramQuery ELSE d.cachedLogsQuery

\* a key that leaves the display intent out
cacheKeyOf_NoDisplayMode(d, target, reqRef) ==
  [reqData |-> reqValue(d, reqRef), displayMode |-> "auto", type |-> target.refId]

\* JSON.stringify({reqData, displayMode, type})
cacheKeyOf(d, target, reqRef) ==
  [reqData |-> reqValue(d, reqRef), displayMode |-> modeOf(target), type |-> target.refId]

\* settling the handle of whatever entry the slot of e holds now, not the handle of
\* the entry the pipeline was started with
settle_CurrentSlot(d, e, outcome) ==
  LET cur == IF includesLogVolume(d.entries[e].requestQuery.type)
               THEN d.cachedHistogramQuery ELSE d.cachedLogsQuery
  IN [d EXCEPT !.entries[cur].handle = IF @.status = "pending" THEN outcome ELSE @,
               !.entries[cur].settles = @ + 1]

\* currentCache.promise?.resolve(v) / reject(e): the first settlement wins
settle(d, e, outcome) ==
  [d EXCEPT !.entries[e].handle = IF @.status = "pending" THEN outcome ELSE @,
            !.entries[e].settles = @ + 1]

\* handleCacheManagement with the slot's object filled in again on a miss, or with
\* a cache hit that asks more than an equal key and a stored promise
cacheManagementWith(d, target, reqRef, isHistogramQuery, reset, extra) ==
  LET cur == slotOf(d, isHistogramQuery)
      cacheKey == cacheKeyOf(d, target, reqRef)
  IN IF cacheKey = d.entries[cur].requestQuery /\ d.entries[cur].data /\ extra
       THEN [d |-> d, currentCache |-> cur, shouldUseCachedData |-> TRUE]
       ELSE LET d1 == IF ~reset THEN d
                      ELSE IF includesLogVolume(target.refId)
                             THEN resetHistogramQueryCache(d)
                             ELSE resetLogsQueryCache(d)
                new == slotOf(d1, isHistogramQuery)
            IN [d |-> [d1 EXCEPT !.entries[new] =
                         [@ EXCEPT !.data = TRUE, !.requestQuery = cacheKey,
                                   !.isFetching = TRUE, !.handle = PendingOutcome]],
                currentCache |-> new, shouldUseCachedData |-> FALSE]

\* a hit only once the stored promise has settled
handleCacheManagement_SettledOnly(d, target, reqRef, isHistogramQuery) ==
  cacheManagementWith(d, target, reqRef, isHistogramQuery, TRUE,
                      d.entries[slotOf(d, isHistogramQuery)].handle.status # "pending")

\* a hit only while the entry is marked as fetching
handleCacheManagement_FetchingOnly(d, target, reqRef, isHistogramQuery) ==
  cacheManagementWith(d, target, reqRef, isHistogramQuery, TRUE,
                      d.entries[slotOf(d, isHistogramQuery)].isFetching)

\* a miss that does not replace the slot's object
handleCacheManagement_NoReset(d, target, reqRef, isHistogramQuery) ==
  cacheManagementWith(d, target, reqRef, isHistogramQuery, FALSE, TRUE)

\* a hit unless the stored promise was rejected: a failed fetch is fetched again
handleCacheManagement_RetryFailed(d, target, reqRef, isHistogramQuery) ==
  cacheManagementWith(d, target, reqRef, isHistogramQuery, TRUE,
                      d.entries[slotOf(d, isHistogramQuery)].handle.status # "rejected")

\* [d, currentCache, shouldUseCachedData]
handleCacheManagement(d, target, reqRef, isHistogramQuery) ==
  LET cur == slotOf(d, isHistogramQuery)
      cacheKey == cacheKeyOf(d, target, reqRef)
  IN IF cacheKey = d.entries[cur].requestQuery /\ d.entries[cur].data
       THEN [d |-> d, currentCache |-> cur, shouldUseCachedData |-> TRUE]
       ELSE LET d1 == IF includesLogVolume(target.refId)
                        THEN resetHistogramQueryCache(d)
                        ELSE resetLogsQueryCache(d)
                new == slotOf(d1, isHistogramQuery)
            IN [d |-> [d1 EXCEPT !.entries[new] =
                         [@ EXCEPT !.data = TRUE, !.requestQuery = cacheKey,
                                   !.isFetching = TRUE]],
                currentCache |-> new, shouldUseCachedData |-> FALSE]

(***************************************************************************)
(* Fetch pipelines.  A task is a started pipeline: the entry and request   *)
(* objects it holds, where it is suspended (pc), the per-partition         *)
(* histogram calls (parts), the backend calls it has issued (sent) and the *)
(* promise it returned to its caller (ret).                                *)
(***************************************************************************)
Call(kind, payload) == [kind |-> kind, payload |-> payload]

NewTask(e, target, app, reqRef, pc, call) ==
  [entry |-> e, target |-> target, app |-> app, req |-> reqRef, pc |-> pc,
   parts |-> <<>>, ret |-> PendingOutcome, sent |-> <<call>>,
   \* the rejection of a backend call the pipeline has seen
   callFailed |-> FALSE, err |-> NoError,
   \* the position of the pipeline's completion among the pipelines of its batch
   doneAt |-> 0,
   \* what the partition-discovery call answered, once it has
   discovery |-> [answered |-> FALSE, partitions |-> <<>>, is_histogram_eligible |-> FALSE,
                  histogram_interval |-> Absent],
   \* the hits of the answer to the single histogram call over the whole range
   answer |-> NoHits]

\* [d, threw]: reqData.query of an undefined reqData throws before any call is issued
processVolumeOrDashboardQuery(d, target, reqRef, app, currentCache) ==
  IF reqRef = 0
    THEN [d |-> d, threw |-> TRUE]
    ELSE LET d1 == [d EXCEPT !.reqHeap[reqRef].size = Absent]
         IN [d |-> [d1 EXCEPT !.tasks =
                      Append(@, NewTask(currentCache, target, app, reqRef, "discovery",
                                        Call("partition", d1.reqHeap[reqRef])))],
             threw |-> FALSE]

\* [d, threw]: doRequest posts reqData as it is
processLogsQuery(d, target, reqRef, app, currentCache) ==
  [d |-> [d EXCEPT !.tasks =
            Append(@, NewTask(currentCache, target, app, reqRef, "search",
                              Call("search", reqValue(d, reqRef))))],
   threw |-> FALSE]

\* the position at which task t completes among the pipelines of its query() batch
completionOf(d, t) ==
  LET batchOfTask(u) == d.callers[CHOOSE c \in 1..Len(d.callers) : d.callers[c].task = u].batch
  IN 1 + Cardinality({u \in 1..Len(d.tasks) :
                        /\ u # t /\ d.tasks[u].pc = "done"
                        /\ batchOfTask(u) = batchOfTask(t)})

\* the tasks started for entry e that have not completed
inFlight(d, e) == {t \in 1..Len(d.tasks) : d.tasks[t].entry = e /\ d.tasks[t].pc # "done"}

NewCaller(d0, batch, target, app, isH, key, hit, e, task, threw) ==
  [batch |-> batch, target |-> target, app |-> app, key |-> key, hit |-> hit,
   entry |-> e, task |-> task, threw |-> threw,
   keyBefore |-> d0.entries[slotOf(d0, isH)].requestQuery,
   entryBefore |-> slotOf(d0, isH),
   inFlightBefore |-> inFlight(d0, slotOf(d0, isH)) # {},
   settledBefore |-> d0.entries[slotOf(d0, isH)].handle.status # "pending"]

\* a volume target that always uses the request built for it
reusesHistogramQuery_Never(d, target) == FALSE

\* the else-if of the side channel: a volume target takes over this.histogramQuery
reusesHistogramQuery(d, target) ==
  includesLogVolume(target.refId) /\ d.histogramQuery # 0

\* routing on the display intent instead of the context
usesPartitionPath_ByIntent(target, app) ==
  includesLogVolume(target.refId) \/ modeOf(target) = "graph"

\* the condition under which processSingleQuery calls processVolumeOrDashboardQuery
usesPartitionPath(target, app) ==
  includesLogVolume(target.refId) \/ app = "panel-editor" \/ app = "dashboard"

\* [d, threw]
processSingleQuery(d, target, timestamps, app, batch) ==
  LET isHistogramQuery == includesLogVolume(target.refId)
      built == buildQuery(target, timestamps, d.streamFields, app)
      reuse == reusesHistogramQuery(d, target)
      \* the built object is kept only where the code keeps a reference to it
      d1 == IF built.defined /\ ~reuse THEN [d EXCEPT !.reqHeap = Append(@, built)] ELSE d
      builtRef == IF built.defined /\ ~reuse THEN Len(d1.reqHeap) ELSE 0
      d2 == IF ~includesLogVolume(target.refId)
              THEN [d1 EXCEPT !.histogramQuery = builtRef]
              ELSE IF reuse
                     THEN [d1 EXCEPT !.reqHeap[d1.histogramQuery] =
                             [@ EXCEPT !.sql_mode = "context", !.size = Absent]]
                     ELSE d1
      reqData == IF reuse THEN d1.histogramQuery ELSE builtRef
      cm == handleCacheManagement(d2, target, reqData, isHistogramQuery)
      key == cacheKeyOf(d2, target, reqData)
  IN IF cm.shouldUseCachedData
       THEN [d |-> [cm.d EXCEPT !.callers =
                      Append(@, NewCaller(d, batch, target, app, isHistogramQuery, key,
                                          TRUE, cm.currentCache, 0, FALSE))],
             threw |-> FALSE]
       ELSE LET r == IF usesPartitionPath(target, app)
                       THEN processVolumeOrDashboardQuery(cm.d, target, reqData, app,
                                                          cm.currentCache)
                       ELSE processLogsQuery(cm.d, target, reqData, app, cm.currentCache)
            IN [d |-> [r.d EXCEPT !.callers =
                         Append(@, NewCaller(d, batch, target, app, isHistogramQuery, key,
                                             FALSE, cm.currentCache,
                                             IF r.threw THEN 0 ELSE Len(r.d.tasks),
                                             r.threw))],
                threw |-> r.threw]

\* options.targets.map(processSingleQuery): a throw ends the map
RECURSIVE processTargets(_, _, _, _, _, _)
processTargets(d, targets, i, timestamps, app, batch) ==
  IF i > Len(targets)
    THEN [d |-> d, threw |-> FALSE]
    ELSE LET r == processSingleQuery(d, targets[i], timestamps, app, batch)
         IN IF r.threw THEN r
            ELSE processTargets(r.d, targets, i + 1, timestamps, app, batch)

query(d, targets, timestamps, app) ==
  LET batch == Len(d.batches) + 1
      r == processTargets(d, targets, 1, timestamps, app, batch)
  IN [r.d EXCEPT !.batches = Append(@, [app |-> app, size |-> Len(targets),
                                         targets |-> targets, threw |-> r.threw])]

\* cachedData.then((res) => res): every branch returns the handle's value
processCachedDataResponse(cachedData) == cachedData

\* the promise processSingleQuery returned to caller c (a rejection when it threw)
callerOutcome(d, c) ==
  IF d.callers[c].hit THEN processCachedDataResponse(d.entries[d.callers[c].entry].handle)
  ELSE IF d.callers[c].threw THEN Rejected(TypeErrorOf("reqData.query"))
  ELSE d.tasks[d.callers[c].task].ret

\* the callers of query() batch b, in the order of options.targets
callersOf(d, b) ==
  SelectSeq([c \in 1..Len(d.callers) |-> c], LAMBDA c : d.callers[c].batch = b)

QueryOutcome(status, data) == [status |-> status, data |-> data]

\* the frames of the callers cs of a batch in the order in which their pipelines
\* completed
dataInCompletionOrder(d, cs) ==
  LET stamp(c) == IF d.tasks = <<>> \/ d.callers[c].task = 0 THEN 0
                  ELSE d.tasks[d.callers[c].task].doneAt
      rank(i) == Cardinality({j \in 1..Len(cs) :
                    \/ stamp(cs[j]) < stamp(cs[i])
                    \/ stamp(cs[j]) = stamp(cs[i]) /\ j <= i})
  IN [k \in 1..Len(cs) |->
        callerOutcome(d, cs[CHOOSE i \in 1..Len(cs) : rank(i) = k]).frame]

queryOutcome_CompletionOrder(d, b) ==
  LET cs == callersOf(d, b)
  IN IF d.batches[b].threw \/ \E i \in 1..Len(cs) : callerOutcome(d, cs[i]).status = "rejected"
       THEN QueryOutcome("rejected", <<>>)
     ELSE IF \E i \in 1..Len(cs) : callerOutcome(d, cs[i]).status = "pending"
       THEN QueryOutcome("pending", <<>>)
     ELSE QueryOutcome("fulfilled", dataInCompletionOrder(d, cs))

\* the promise query() returned for batch b: Promise.all(promises).then(data => ({data}))
queryOutcome(d, b) ==
  LET cs == callersOf(d, b)
  IN IF d.batches[b].threw \/ \E i \in 1..Len(cs) : callerOutcome(d, cs[i]).status = "rejected"
       THEN QueryOutcome("rejected", <<>>)
     ELSE IF \E i \in 1..Len(cs) : callerOutcome(d, cs[i]).status = "pending"
       THEN QueryOutcome("pending", <<>>)
     ELSE QueryOutcome("fulfilled", [i \in 1..Len(cs) |-> callerOutcome(d, cs[i]).frame])

updateStreamFields(d, sf) == [d EXCEPT !.streamFields = sf]

(***************************************************************************)
(* Backend responses.  The rows of a response are tagged with the task     *)
(* whose call they answer, so that the results of two fetches differ.      *)
(***************************************************************************)
Response(ok, hits, error) == [ok |-> ok, hits |-> hits, error |-> error]

HttpError(hasData, code, message, detail, statusText) ==
  [kind |-> "http", hasData |-> hasData, code |-> code, message |-> message,
   error_detail |-> detail, statusText |-> statusText]

\* failures of getBackendSrv().post: a coded backend error with a detail, an uncoded
\* backend error without one, and a failure that carries no data at all
BackendErrors ==
  {HttpError(TRUE, 20001, "backend message", "backend detail", "Bad Request"),
   HttpError(TRUE, 0, "backend message", "", "Bad Request"),
   HttpError(FALSE, 0, "", "", "Bad Gateway")}

\* utils/zincutils logsErrorMessage: the user-facing message of a known code, else ''
logsErrorMessage(code) == IF code = 20001 THEN "mapped message" ELSE ""

SearchResponses(t, errors) ==
  {Response(TRUE, Hits(<<100 * t>>), NoError), Response(TRUE, NoHits, NoError)}
    \cup {Response(FALSE, NoHits, e) : e \in errors}

\* the hits of the histogram call over [s, e): one row per bucket
HistogramHits(t, s, e) == Hits([k \in 1..(e - s) |-> 100 * t + s + k - 1])

HistogramResponses(t, payload) ==
  {Response(TRUE, HistogramHits(t, payload.start_time, payload.end_time), NoError),
   Response(TRUE, NoHits, NoError),
   Response(FALSE, NoHits, HttpError(FALSE, 0, "", "", "Bad Gateway"))}

\* a partition-discovery response: n partitions of two time units each, from the
\* request's start time on
PartitionResponse(ok, n, eligible, start) ==
  [ok |-> ok, partitions |-> [i \in 1..n |-> <<start + 2 * (i - 1), start + 2 * i>>],
   is_histogram_eligible |-> eligible, histogram_interval |-> 1]

PartitionResponses(payload, maxPartitions, eligibility) ==
  {PartitionResponse(FALSE, 0, FALSE, 0)}
    \cup {PartitionResponse(TRUE, n, el, payload.start_time) :
            n \in 0..maxPartitions, el \in eligibility}

(***************************************************************************)
(* Completion of the direct logs pipeline: the then, catch and finally of  *)
(* processLogsQuery.                                                       *)
(***************************************************************************)
\* the Error the catch block throws for err; err.data.code of an err without data throws
normalizedError(err) ==
  IF ~err.hasData
    THEN TypeErrorOf("Cannot read properties of undefined (reading 'code')")
    ELSE LET customMessage == logsErrorMessage(err.code)
             message == IF customMessage # "" THEN customMessage ELSE err.message
             detail == err.error_detail
         IN [kind |-> "Error", hasData |-> FALSE, code |-> 0,
             message |-> message \o (IF detail # "" THEN " ( " \o detail \o " ) " ELSE ""),
             error_detail |-> "", statusText |-> ""]

processLogsQueryCatch(d, t, err) ==
  LET d1 == settle(d, d.tasks[t].entry, Rejected(err))
  IN [d1 EXCEPT !.tasks[t].ret = Rejected(normalizedError(err))]

processLogsQueryThen(d, t, response) ==
  LET df == getLogsDataFrame(response.hits, d.tasks[t].target, d.streamFields)
  IN IF df.threw
       THEN processLogsQueryCatch(d, t, TypeErrorOf("getLogsDataFrame"))
       ELSE [settle(d, d.tasks[t].entry, Fulfilled(df.frame))
               EXCEPT !.tasks[t].ret = Fulfilled(df.frame)]

\* a cleanup that clears the flag of the entry the slot holds now
processLogsQueryFinally_CurrentSlot(d, t) ==
  [d EXCEPT !.entries[d.cachedLogsQuery].isFetching = FALSE, !.tasks[t].pc = "done",
            !.tasks[t].doneAt = completionOf(d, t)]

processLogsQueryFinally(d, t) ==
  [d EXCEPT !.entries[d.tasks[t].entry].isFetching = FALSE, !.tasks[t].pc = "done",
            !.tasks[t].doneAt = completionOf(d, t)]

\* the task has seen a backend call reject with err
sawFailure(d, t, err) == [d EXCEPT !.tasks[t].callFailed = TRUE, !.tasks[t].err = err]

processLogsQuerySettled(d, t, response) ==
  processLogsQueryFinally(
    IF response.ok THEN processLogsQueryThen(d, t, response)
    ELSE processLogsQueryCatch(sawFailure(d, t, response.error), t, response.error), t)

(***************************************************************************)
(* Completion of the partitioned histogram pipeline.                       *)
(***************************************************************************)
\* a shaper choice that ignores the display intent
createDataFrame_AlwaysGraph(d, t, hits) ==
  LET df == getGraphDataFrame(hits, d.tasks[t].target)
  IN [d |-> IF df.threw THEN d ELSE settle(d, d.tasks[t].entry, Fulfilled(df.frame)),
      threw |-> df.threw, frame |-> df.frame]

\* a shaper choice that always takes the logs shaper
createDataFrame_AlwaysLogs(d, t, hits) ==
  LET df == getLogsDataFrame(hits, d.tasks[t].target, d.streamFields)
  IN [d |-> IF df.threw THEN d ELSE settle(d, d.tasks[t].entry, Fulfilled(df.frame)),
      threw |-> df.threw, frame |-> df.frame]

\* [d, threw, frame]
createDataFrame(d, t, hits) ==
  LET target == d.tasks[t].target
      mode == modeOf(target)
      df == IF mode = "graph" \/ includesLogVolume(target.refId)
              THEN getGraphDataFrame(hits, target)
              ELSE getLogsDataFrame(hits, target, d.streamFields)
  IN [d |-> IF df.threw THEN d ELSE settle(d, d.tasks[t].entry, Fulfilled(df.frame)),
      threw |-> df.threw, frame |-> df.frame]

\* [d, threw, frame]
handleQueryError(d, t) ==
  LET target == d.tasks[t].target
      mode == modeOf(target)
      df == IF mode = "graph" \/ includesLogVolume(target.refId)
              THEN getGraphDataFrame(Hits(<<>>), target)
              ELSE getLogsDataFrame(Hits(<<>>), target, d.streamFields)
  IN [d |-> IF df.threw THEN d ELSE settle(d, d.tasks[t].entry, Fulfilled(df.frame)),
      threw |-> df.threw, frame |-> df.frame]

\* a pipeline without the .catch: the failure reaches the caller and the handle
volumeCatch_Rethrow(d, t) ==
  [settle(d, d.tasks[t].entry, Rejected(d.tasks[t].err))
     EXCEPT !.tasks[t].pc = "done", !.tasks[t].ret = Rejected(d.tasks[t].err),
            !.tasks[t].doneAt = completionOf(d, t)]

\* the .catch of processVolumeOrDashboardQuery and the end of the pipeline
volumeCatch(d, t) ==
  LET h == handleQueryError(d, t)
  IN [h.d EXCEPT !.tasks[t].pc = "done", !.tasks[t].doneAt = completionOf(d, t),
                 !.tasks[t].ret = IF h.threw THEN Rejected(TypeErrorOf("getLogsDataFrame"))
                                  ELSE Fulfilled(h.frame)]

\* the pipeline ends with createDataFrame(hits), or in the catch when that throws
volumeFinish(d, t, hits) ==
  LET r == createDataFrame(d, t, hits)
  IN IF r.threw THEN volumeCatch(d, t)
     ELSE [r.d EXCEPT !.tasks[t].pc = "done", !.tasks[t].doneAt = completionOf(d, t),
                      !.tasks[t].ret = Fulfilled(r.frame)]

\* the hits concatenated in the order in which the calls completed
RECURSIVE combinedHits_CompletionOrder(_, _)
combinedHits_CompletionOrder(parts, n) ==
  IF n = 0 THEN <<>>
  ELSE LET i == CHOOSE j \in 1..Len(parts) : parts[j].order = n
       IN combinedHits_CompletionOrder(parts, n - 1)
            \o (IF parts[i].hits.defined THEN parts[i].hits.rows ELSE <<>>)

\* histogramResponses.reduce((acc, response) => acc.concat(response.hits || []), [])
RECURSIVE combinedHits(_, _)
combinedHits(parts, n) ==
  IF n = 0 THEN <<>>
  ELSE combinedHits(parts, n - 1) \o (IF parts[n].hits.defined THEN parts[n].hits.rows ELSE <<>>)

\* a derived request that keeps the time range of the base request
partitionHistogramQuery_WholeRange(reqData, partition, partitionResponse) ==
  [reqData EXCEPT !.histogram_interval = partitionResponse.histogram_interval]

partitionHistogramQuery(reqData, partition, partitionResponse) ==
  [reqData EXCEPT !.start_time = partition[1], !.end_time = partition[2],
                  !.histogram_interval = partitionResponse.histogram_interval]

processPartitionResponse(d, t, partitionResponse) ==
  LET reqData == d.reqHeap[d.tasks[t].req]
      partitions == partitionResponse.partitions
  IN IF Len(partitions) > 0
       THEN IF ~partitionResponse.is_histogram_eligible
              THEN volumeFinish(d, t, Hits(<<>>))
              ELSE [d EXCEPT !.tasks[t].pc = "histograms",
                      !.tasks[t].parts =
                         [i \in 1..Len(partitions) |->
                            [status |-> "pending", hits |-> NoHits, order |-> 0]],
                      !.tasks[t].sent = @ \o
                         [i \in 1..Len(partitions) |->
                            Call("histogram",
                                 partitionHistogramQuery(reqData, partitions[i],
                                                         partitionResponse))]]
       ELSE [d EXCEPT !.tasks[t].pc = "fallback",
                      !.tasks[t].sent = Append(@, Call("histogram", reqData))]

partitionSettled(d, t, partitionResponse) ==
  IF partitionResponse.ok
    THEN processPartitionResponse(
           [d EXCEPT !.tasks[t].discovery =
              [answered |-> TRUE, partitions |-> partitionResponse.partitions,
               is_histogram_eligible |-> partitionResponse.is_histogram_eligible,
               histogram_interval |-> partitionResponse.histogram_interval]],
           t, partitionResponse)
  ELSE volumeCatch(sawFailure(d, t, HttpError(FALSE, 0, "", "", "Bad Gateway")), t)

\* a fan-in that waits for every call and merges the hits of those that succeeded
histogramSettled_SkipFailed(d, t, i, response) ==
  LET completed == {j \in 1..Len(d.tasks[t].parts) : d.tasks[t].parts[j].status # "pending"}
      d1 == [d EXCEPT !.tasks[t].parts[i] =
               [status |-> IF response.ok THEN "ok" ELSE "fail", hits |-> response.hits,
                order |-> Cardinality(completed) + 1]]
      d2 == IF response.ok THEN d1 ELSE sawFailure(d1, t, response.error)
      parts == d2.tasks[t].parts
  IN IF \A j \in 1..Len(parts) : parts[j].status # "pending"
       THEN volumeFinish(d2, t, Hits(combinedHits(parts, Len(parts))))
       ELSE d2

\* the i-th histogram call of Promise.all(histogramPromises) completes
histogramSettled(d, t, i, response) ==
  LET completed == {j \in 1..Len(d.tasks[t].parts) : d.tasks[t].parts[j].status # "pending"}
      d1 == [d EXCEPT !.tasks[t].parts[i] =
               [status |-> IF response.ok THEN "ok" ELSE "fail", hits |-> response.hits,
                \* the position of this call in the order of completion
                order |-> Cardinality(completed) + 1]]
      parts == d1.tasks[t].parts
  IN IF ~response.ok THEN volumeCatch(sawFailure(d1, t, response.error), t)
     ELSE IF \A j \in 1..Len(parts) : parts[j].status = "ok"
            THEN volumeFinish(d1, t, Hits(combinedHits(parts, Len(parts))))
            ELSE d1

\* a fallback that drops the rows of its answer
fallbackSettled_NoRows(d, t, response) ==
  IF response.ok THEN volumeFinish([d EXCEPT !.tasks[t].answer = response.hits], t,
                                   Hits(<<>>))
  ELSE volumeCatch(sawFailure(d, t, response.error), t)

fallbackSettled(d, t, response) ==
  IF response.ok THEN volumeFinish([d EXCEPT !.tasks[t].answer = response.hits], t,
                                   response.hits)
  ELSE volumeCatch(sawFailure(d, t, response.error), t)

(***************************************************************************)
(* Inputs.                                                                 *)
(***************************************************************************)
Target(refId, displayMode, queryText) ==
  [refId |-> refId, displayMode |-> displayMode, query |-> queryText, sqlMode |-> FALSE,
   stream |-> "default"]

RefIds == {<<"", "A">>, <<REF_ID_STARTER_LOG_VOLUME, "A">>}
DisplayModes == {"logs", "graph"}
Targets == {Target(r, m, "level") : r \in RefIds, m \in DisplayModes}
Apps == {"explore", "dashboard"}
Contexts == {"explore", "dashboard", "panel-editor"}
TimeRanges == {[startTimeInMicro |-> 0, endTimeInMirco |-> 4]}
StreamFieldSets == {<<>>, <<"level">>, <<NullField>>}

(***************************************************************************)
(* The operations of the data source and of its backend, over the inputs   *)
(* a specification allows.                                                 *)
(***************************************************************************)
\* the data source after its constructor
InitDataSource ==
  /\ streamFields = <<>>
  /\ histogramQuery = 0
  /\ reqHeap = <<>>
  /\ entries = <<FreshCachedQuery, FreshCachedQuery>>
  /\ cachedLogsQuery = 1
  /\ cachedHistogramQuery = 2
  /\ tasks = <<>>
  /\ callers = <<>>
  /\ batches = <<>>

\* no pure function under examination
NoApplication == [fn |-> "", done |-> FALSE]

Init ==
  /\ InitDataSource
  /\ applied = NoApplication

\* DataSource.query(options): every target of the batch is processed before anything
\* is awaited
Query(targetSet, appSet, rangeSet, maxCallers, maxBatch) ==
  \E app \in appSet, timestamps \in rangeSet, n \in 1..maxBatch :
    /\ Len(callers) + n <= maxCallers
    /\ \E targets \in [1..n -> targetSet] :
         Commit(query(DS, targets, timestamps, app))

UpdateStreamFields(fieldSets) ==
  \E sf \in fieldSets :
    /\ sf # streamFields
    /\ Commit(updateStreamFields(DS, sf))

\* the doRequest call of a direct logs pipeline completes
SearchResponds(errors) ==
  \E t \in 1..Len(tasks) :
    /\ tasks[t].pc = "search"
    /\ \E response \in SearchResponses(t, errors) :
         Commit(processLogsQuerySettled(DS, t, response))

\* the doPartitionRequest call of a partitioned pipeline completes
DiscoveryResponds(maxPartitions, eligibility) ==
  \E t \in 1..Len(tasks) :
    /\ tasks[t].pc = "discovery"
    /\ \E response \in PartitionResponses(tasks[t].sent[1].payload, maxPartitions,
                                               eligibility) :
         Commit(partitionSettled(DS, t, response))

\* one doHistogramRequest call of the partition fan-out completes, in any order
HistogramResponds ==
  \E t \in 1..Len(tasks) :
    /\ tasks[t].pc = "histograms"
    /\ \E i \in 1..Len(tasks[t].parts) :
         /\ tasks[t].parts[i].status = "pending"
         /\ \E response \in HistogramResponses(t, tasks[t].sent[1 + i].payload) :
              Commit(histogramSettled(DS, t, i, response))

\* the single doHistogramRequest call over the whole range completes
FallbackResponds ==
  \E t \in 1..Len(tasks) :
    /\ tasks[t].pc = "fallback"
    /\ \E response \in HistogramResponses(t, tasks[t].sent[2].payload) :
         Commit(fallbackSettled(DS, t, response))

(***************************************************************************)
(* Spec: the dispatch cache in the Explore context, where a logs target    *)
(* takes the direct path and its volume target the partitioned path: both  *)
(* slots, batches of several targets, a backend that fails a search with a *)
(* structured error and answers partition discovery with at most one       *)
(* partition.                                                              *)
(***************************************************************************)
Next ==
  \/ Query(Targets, {"explore"}, TimeRanges, MaxCallers, MaxBatch)
  \/ SearchResponds({HttpError(TRUE, 20001, "backend message", "backend detail",
                               "Bad Request")})
  \/ DiscoveryResponds(1, BOOLEAN)
  \/ HistogramResponds
  \/ FallbackResponds

Spec == Init /\ [][Next]_vars

(***************************************************************************)
(* SpecPipeline: single resolutions in full: every backend failure and     *)
(* every partition count up to MaxPartitions in every completion order.    *)
(***************************************************************************)
NextPipeline ==
  \/ Query(Targets, Apps, TimeRanges, PipelineCallers, 1)
  \/ SearchResponds(BackendErrors)
  \/ DiscoveryResponds(MaxPartitions, BOOLEAN)
  \/ HistogramResponds
  \/ FallbackResponds

SpecPipeline == Init /\ [][NextPipeline]_vars

(***************************************************************************)
(* SpecReplace: one slot's entry replaced back and forth: three or more    *)
(* resolutions of the primary slot's targets, which differ in display      *)
(* intent only, one target per batch, on the direct path (explore) and on  *)
(* the partitioned path (dashboard) with a discovery that returns no       *)
(* partition for an eligible range.                                        *)
(***************************************************************************)
ReplaceTargets == {Target(<<"", "A">>, m, "level") : m \in DisplayModes}

NextReplace ==
  \/ Query(ReplaceTargets, Apps, TimeRanges, ReplaceCallers, 1)
  \/ SearchResponds({HttpError(TRUE, 20001, "backend message", "backend detail",
                               "Bad Request")})
  \/ DiscoveryResponds(0, {TRUE})
  \/ FallbackResponds

SpecReplace == Init /\ [][NextReplace]_vars

(***************************************************************************)
(* SpecBuild: the stream field set is refreshed between and during         *)
(* resolutions, also with a malformed entry that makes buildQuery fail.    *)
(***************************************************************************)
NextBuild ==
  \/ Query(Targets, Apps, TimeRanges, BuildCallers, 1)
  \/ UpdateStreamFields(StreamFieldSets)
  \/ SearchResponds({HttpError(TRUE, 20001, "backend message", "backend detail",
                               "Bad Request")})
  \/ DiscoveryResponds(1, BOOLEAN)
  \/ HistogramResponds
  \/ FallbackResponds

SpecBuild == Init /\ [][NextBuild]_vars

(***************************************************************************)
(* SpecRoute: single resolutions in each of the three contexts.            *)
(***************************************************************************)
\* targets of every display intent, an unset one (auto) included
RouteTargets == {Target(r, m, "level") : r \in RefIds, m \in DisplayModes \cup {"undefined"}}

NextRoute ==
  \/ Query(RouteTargets, Contexts, TimeRanges, RouteCallers, 1)
  \/ SearchResponds({HttpError(TRUE, 20001, "backend message", "backend detail",
                               "Bad Request")})
  \/ DiscoveryResponds(1, BOOLEAN)
  \/ HistogramResponds
  \/ FallbackResponds

SpecRoute == Init /\ [][NextRoute]_vars

(***************************************************************************)
(* SpecSide: the side channel: logs targets over two time ranges and a     *)
(* paired volume target with a query text and a range of its own, in the   *)
(* explore context.                                                        *)
(***************************************************************************)
SideTargets ==
  {Target(<<"", "A">>, "logs", "level"), Target(<<REF_ID_STARTER_LOG_VOLUME, "A">>, "logs", "own")}

SideRanges ==
  {[startTimeInMicro |-> 0, endTimeInMirco |-> 4], [startTimeInMicro |-> 4, endTimeInMirco |-> 8]}

NextSide ==
  \/ Query(SideTargets, {"explore"}, SideRanges, SideCallers, 1)
  \/ SearchResponds({})
  \/ DiscoveryResponds(1, {TRUE})
  \/ HistogramResponds
  \/ FallbackResponds

SpecSide == Init /\ [][NextSide]_vars

(***************************************************************************)
(* SpecPair: Explore batches over two targets with different filters and   *)
(* the volume target that getLogsVolumeDataProvider derives from the first *)
(* (a clone of it whose refId carries the prefix).                         *)
(***************************************************************************)
PairTargets ==
  {Target(<<"", "A">>, "logs", "level"), Target(<<"", "B">>, "logs", "host"),
   Target(<<REF_ID_STARTER_LOG_VOLUME, "A">>, "logs", "level")}

NextPair ==
  \/ Query(PairTargets, {"explore"}, SideRanges, PairCallers, MaxBatch)
  \/ SearchResponds({})
  \/ DiscoveryResponds(1, {TRUE})
  \/ HistogramResponds
  \/ FallbackResponds

SpecPair == Init /\ [][NextPair]_vars

(***************************************************************************)
(* SpecRequest: buildQuery applied once to a filter expression, a set of   *)
(* known field names, a context and a query mode.                          *)
(***************************************************************************)
\* status=200 and service="a=b"
StatusAndService ==
  <<"s", "t", "a", "t", "u", "s", "=", "2", "0", "0", " ", "a", "n", "d", " ", "s",
    "e", "r", "v", "i", "c", "e", "=", "\"", "a", "=", "b", "\"">>

\* "status" = 200 and service = "a=b"
StatusAndServiceSpaced ==
  <<"\"", "s", "t", "a", "t", "u", "s", "\"", " ", "=", " ", "2", "0", "0", " ", "a",
    "n", "d", " ", "s", "e", "r", "v", "i", "c", "e", " ", "=", " ", "\"", "a", "=",
    "b", "\"">>

FieldStatus == <<"s", "t", "a", "t", "u", "s">>
FieldService == <<"s", "e", "r", "v", "i", "c", "e">>

\* filter expressions with and without quoted literals, operators of one and of two
\* characters, with and without blanks around them
Expressions ==
  {StatusAndService,
   FieldStatus \o <<"=", "2", "0", "0">>,
   FieldStatus \o <<" ", "=", " ", "2", "0", "0">>,
   FieldStatus \o <<"!", "=", "5", "0", "0">>,
   FieldStatus \o <<">", "=", "1">>,
   FieldStatus \o <<"<", "=", "1">>,
   FieldStatus \o <<"<", "1">>,
   FieldStatus \o <<"=", "'", "a", "=", "b", "'">>,
   FieldService \o <<"=", "\"", "a", "=", "b", "\"", "'", " ", "a", "n", "d", " ">>
     \o FieldStatus \o <<"=", "1">>,
   FieldStatus,
   <<" ", " ">>,
   <<>>}

FieldNameSets == {<<>>, <<FieldStatus>>, <<FieldService, FieldStatus>>}

\* the request buildQuery returns for an expression given as a text: the sql is the
\* template up to the where clause, the stream name, and the rewritten clause
builtRequest(queryData, timestamps, names, app) ==
  LET req == buildQuery([queryData EXCEPT !.query = IF isBlank(@) THEN "" ELSE "expression"],
                        timestamps, <<>>, app)
  IN [size |-> req.size, sql_mode |-> req.sql_mode, start_time |-> req.start_time,
      end_time |-> req.end_time,
      sql |-> IF queryData.sqlMode THEN queryData.query
              ELSE <<"select * from \"", queryData.stream, "\" ">>
                     \o whereClause(queryData.query, names)]

InitRequest ==
  /\ InitDataSource
  /\ \E expression \in Expressions, sqlMode \in BOOLEAN, names \in FieldNameSets, app \in Contexts,
        timestamps \in TimeRanges :
        applied = [fn |-> "buildQuery", done |-> FALSE,
                   queryData |-> [query |-> expression, sqlMode |-> sqlMode,
                                 stream |-> "default"],
                   timestamps |-> timestamps, names |-> names, app |-> app,
                   req |-> [size |-> Absent, sql_mode |-> "", start_time |-> Absent,
                            end_time |-> Absent, sql |-> <<>>]]

BuildQuery ==
  /\ applied.fn = "buildQuery" /\ ~applied.done
  /\ applied' = [applied EXCEPT !.done = TRUE,
                   !.req = builtRequest(applied.queryData, applied.timestamps, applied.names,
                                        applied.app)]
  /\ UNCHANGED <<streamFields, histogramQuery, reqHeap, entries, cachedLogsQuery,
                 cachedHistogramQuery, tasks, callers, batches>>

NextRequest == BuildQuery

SpecRequest == InitRequest /\ [][NextRequest]_vars

(***************************************************************************)
(* SpecTime: convertToTimeMs applied once to a number: values at and next  *)
(* to the two thresholds, and timestamps of the present day in seconds,    *)
(* milliseconds and microseconds.                                          *)
(***************************************************************************)
TimeValues ==
  {Num(hi, lo) : hi \in {0, 1, 1700, 9999, 10000, 10001, 499999, 500000, 500001, 1700000,
                         1700000000},
                 lo \in {0, 1, 999, 1000, 1001, 999999}}

InitTime ==
  /\ InitDataSource
  /\ \E value \in TimeValues :
       applied = [fn |-> "convertToTimeMs", done |-> FALSE, value |-> value, result |-> NaN]

ConvertToTimeMs ==
  /\ applied.fn = "convertToTimeMs" /\ ~applied.done
  /\ applied' = [applied EXCEPT !.done = TRUE, !.result = convertToTimeMs(applied.value)]
  /\ UNCHANGED <<streamFields, histogramQuery, reqHeap, entries, cachedLogsQuery,
                 cachedHistogramQuery, tasks, callers, batches>>

NextTime == ConvertToTimeMs

SpecTime == InitTime /\ [][NextTime]_vars

(***************************************************************************)
(* SpecShaper: getLogsDataFrame and getGraphDataFrame applied once to a    *)
(* row set of up to MaxRows rows: log rows with and without a timestamp    *)
(* and with a key that is no stream field, and histogram rows.             *)
(***************************************************************************)
Rows ==
  {<<<<"_timestamp", Num(1700000000, 0)>>, <<"level", Str("info")>>>>,
   <<<<"_timestamp", Num(1700000000, 1500)>>, <<"level", Str("warn")>>,
     <<"extra", Str("x")>>>>,
   <<<<"level", Str("info")>>>>,
   <<<<"zo_sql_key", Str("2024-01-01T00:00:00")>>, <<"zo_sql_num", Num(0, 5)>>>>,
   <<<<"zo_sql_num", Num(0, 7)>>, <<"zo_sql_key", Num(1700000, 0)>>>>}

RowSets == UNION {[1..n -> Rows] : n \in 0..MaxRows}

ShaperFieldSets == {<<>>, <<"level">>, <<"host", "level">>}

\* this.timestampColumn as configured
TimestampColumn == "_timestamp"
\* this.histogramTimestampColumn
HistogramTimestampColumn == "zo_sql_key"

NoFields == [refId |-> <<"", "">>, preferredVisualisationType |-> "", length |-> 0,
             fields |-> <<>>]

InitShaper ==
  /\ InitDataSource
  /\ \E data \in RowSets :
       \/ \E sf \in ShaperFieldSets :
            applied = [fn |-> "getLogsDataFrame", done |-> FALSE, data |-> data,
                       streamFields |-> sf, timestampColumn |-> TimestampColumn,
                       frame |-> NoFields]
       \/ \E column \in {TimestampColumn, HistogramTimestampColumn} :
            applied = [fn |-> "getGraphDataFrame", done |-> FALSE, data |-> data,
                       streamFields |-> <<>>, timestampColumn |-> column,
                       frame |-> NoFields]

GetLogsDataFrame ==
  /\ applied.fn = "getLogsDataFrame" /\ ~applied.done
  /\ applied' = [applied EXCEPT !.done = TRUE,
                   !.frame = logsFrame(applied.data, <<"", "A">>, applied.streamFields,
                                       applied.timestampColumn)]
  /\ UNCHANGED <<streamFields, histogramQuery, reqHeap, entries, cachedLogsQuery,
                 cachedHistogramQuery, tasks, callers, batches>>

GetGraphDataFrame ==
  /\ applied.fn = "getGraphDataFrame" /\ ~applied.done
  /\ applied' = [applied EXCEPT !.done = TRUE,
                   !.frame = graphFrame(applied.data, <<"", "A">>, applied.timestampColumn)]
  /\ UNCHANGED <<streamFields, histogramQuery, reqHeap, entries, cachedLogsQuery,
                 cachedHistogramQuery, tasks, callers, batches>>

NextShaper ==
  \/ GetLogsDataFrame
  \/ GetGraphDataFrame

SpecShaper == InitShaper /\ [][NextShaper]_vars

(***************************************************************************)
(* Properties.                                                             *)
(***************************************************************************)
Callers == 1..Len(callers)
Tasks == 1..Len(tasks)
Entries == 1..Len(entries)

\* the pipelines started for cache entry e
tasksOf(e) == {t \in Tasks : tasks[t].entry = e}

\* the slot a task's target belongs to
slotIsHistogram(t) == includesLogVolume(tasks[t].target.refId)

\* c arrived with the key its slot held, while that entry's fetch was in flight
JoinsPending(c) == callers[c].key = callers[c].keyBefore /\ callers[c].inFlightBefore

\* C1: a target whose cache key equals the key of its slot's entry, arriving while
\* that entry's fetch is in flight, is attached to the entry's handle: no pipeline is
\* started for it, the entry has exactly one pipeline, and when that pipeline
\* returns a frame to the caller that started it, the attached caller has the same
\* frame.
C1_SingleFlight ==
  \A c \in Callers :
    JoinsPending(c) =>
      /\ callers[c].hit
      /\ callers[c].task = 0
      /\ callers[c].entry = callers[c].entryBefore
      /\ Cardinality(tasksOf(callers[c].entry)) = 1
      /\ \A t \in tasksOf(callers[c].entry) :
           tasks[t].ret.status = "fulfilled" => callerOutcome(DS, c) = tasks[t].ret

C1_Witness ==
  \E c \in Callers :
    /\ JoinsPending(c)
    /\ callerOutcome(DS, c).status = "fulfilled"
    /\ callerOutcome(DS, c).frame.rows # <<>>
    /\ \E t \in tasksOf(callers[c].entry) : tasks[t].ret = callerOutcome(DS, c)

\* C3 as stated: each slot has at most one fetch pipeline in flight.
C3_OneInFlightPerSlot ==
  \A isHistogram \in BOOLEAN :
    Cardinality({t \in Tasks : tasks[t].pc # "done" /\ slotIsHistogram(t) = isHistogram}) <= 1

\* C3, amended: at most one fetch pipeline is ever started for a cache entry, none
\* for an entry without a handle, so at most one in-flight pipeline belongs to the
\* entry a slot currently holds; the pipeline of a replaced entry keeps running.
C3_OneInFlightPerEntry ==
  /\ \A e \in Entries :
       /\ Cardinality(tasksOf(e)) <= 1
       /\ ~entries[e].data => tasksOf(e) = {}
  /\ \A cur \in {cachedLogsQuery, cachedHistogramQuery} :
       Cardinality({t \in tasksOf(cur) : tasks[t].pc # "done"}) <= 1

C3_Witness ==
  \E t1, t2 \in Tasks :
    /\ t1 # t2
    /\ tasks[t1].pc # "done" /\ tasks[t2].pc # "done"
    /\ slotIsHistogram(t1) = slotIsHistogram(t2)
    /\ tasks[t1].entry # tasks[t2].entry

\* c arrived with the key its slot held, after that entry's handle had settled
FindsSettled(c) == callers[c].key = callers[c].keyBefore /\ callers[c].settledBefore

\* C6: a target whose cache key equals the key of its slot's entry, arriving after
\* that entry's handle has settled, is served the handle's value, and no pipeline
\* (hence no search, partition-discovery or histogram call) is started for it.
C6_ResolvedHit ==
  /\ \A c \in Callers :
       FindsSettled(c) =>
         /\ callers[c].hit
         /\ callers[c].task = 0
         /\ callers[c].entry = callers[c].entryBefore
         /\ callerOutcome(DS, c) = entries[callers[c].entryBefore].handle
         /\ callerOutcome(DS, c).status # "pending"
  /\ \A t \in Tasks : \E c \in Callers : ~callers[c].hit /\ callers[c].task = t

C6_Witness ==
  \E c \in Callers :
    /\ FindsSettled(c)
    /\ callers[c].hit
    /\ callerOutcome(DS, c).status = "fulfilled"
    /\ callerOutcome(DS, c).frame.rows # <<>>

\* C2: a handle created by a cache miss is pending only while the pipeline started
\* for its entry is in flight (so it settles once every backend call has completed,
\* also when the request builder failed), and it is never settled twice.
C2_SettledExactlyOnce ==
  \A e \in Entries :
    entries[e].data =>
      /\ entries[e].settles <= 1
      /\ entries[e].handle.status = "pending" =>
           \E t \in tasksOf(e) : tasks[t].pc # "done"

\* c arrived with a key different from the key its slot held
Replaces(c) == callers[c].key # callers[c].keyBefore

\* the rows of frame f come from the backend calls of task t
RowsOfTask(f, t) == \A k \in 1..Len(f.rows) : f.rows[k] \div 100 = t

\* C4: a different key replaces the slot's entry by a fresh entry for that key, so
\* a caller arriving with K1 after K2 is a miss on a new entry, never served from an
\* earlier handle; the entry a caller holds keeps its key, its handle stays pending
\* until the entry's own pipeline completes, and is then settled with that
\* pipeline's own result, which is what every holder of the handle receives.
C4_Replacement ==
  /\ \A c \in Callers :
       /\ Replaces(c) =>
            /\ ~callers[c].hit
            /\ callers[c].entry # callers[c].entryBefore
            /\ \A b \in Callers : b < c => callers[b].entry # callers[c].entry
       /\ entries[callers[c].entry].requestQuery = callers[c].key
       /\ \A t \in tasksOf(callers[c].entry) :
            /\ tasks[t].pc # "done" => callerOutcome(DS, c).status = "pending"
            /\ tasks[t].ret.status = "fulfilled" =>
                 /\ callerOutcome(DS, c) = tasks[t].ret
                 /\ RowsOfTask(callerOutcome(DS, c).frame, t)
                 /\ callerOutcome(DS, c).frame.refId = callers[c].target.refId
            /\ tasks[t].ret.status = "rejected" =>
                 /\ callerOutcome(DS, c).status = "rejected"
                 /\ (callers[c].hit /\ tasks[t].callFailed) =>
                      callerOutcome(DS, c).error = tasks[t].err
  /\ \A c \in Callers :
       (\A b \in Callers : b <= c) => cachedLogsQuery = callers[c].entry

\* K1, then K2 while K1's fetch is in flight, then K1's fetch completes with rows,
\* then K1 again
C4_Witness ==
  \E a, b, c \in Callers :
    /\ a < b /\ b < c
    /\ callers[a].key = callers[c].key
    /\ Replaces(b) /\ callers[b].entryBefore = callers[a].entry /\ callers[b].inFlightBefore
    /\ Replaces(c) /\ callers[c].entryBefore = callers[b].entry
    /\ callerOutcome(DS, a).status = "fulfilled"
    /\ callerOutcome(DS, a).frame.rows # <<>>
    /\ entries[callers[a].entry].handle = callerOutcome(DS, a)
    /\ ~callers[c].hit

\* b has the built request and the identifier of a, another display intent, and
\* arrived when the slot held a's entry
IntentOnlyDiffers(a, b) ==
  /\ a < b
  /\ callers[a].target.refId = callers[b].target.refId
  /\ callers[a].key.reqData = callers[b].key.reqData
  /\ modeOf(callers[a].target) # modeOf(callers[b].target)
  /\ callers[b].entryBefore = callers[a].entry

\* C5 as stated: both results stay cached, so resubmitting either one is a hit.
C5_BothCached ==
  \A a, b, c \in Callers :
    (/\ IntentOnlyDiffers(a, b)
     /\ callers[c].entryBefore = callers[b].entry
     /\ callers[c].key \in {callers[a].key, callers[b].key})
      => callers[c].hit /\ callers[c].task = 0

\* C5, amended: the two targets have different keys and each starts its own fetch
\* on its own entry, but they share a slot: the later one replaces the earlier
\* one's entry, so resubmitting the later one is served from the cache without a
\* new fetch and resubmitting the earlier one is a miss that starts a new fetch.
C5_LatestCached ==
  \A a, b \in Callers :
    IntentOnlyDiffers(a, b) =>
      /\ callers[a].key # callers[b].key
      /\ ~callers[b].hit /\ callers[b].task # 0
      /\ callers[b].entry # callers[a].entry
      /\ tasksOf(callers[a].entry) # {}
      /\ tasksOf(callers[b].entry) = {callers[b].task}
      /\ \A c \in Callers :
           callers[c].entryBefore = callers[b].entry =>
             /\ callers[c].key = callers[b].key =>
                  callers[c].hit /\ callers[c].task = 0
                    /\ callers[c].entry = callers[b].entry
             /\ callers[c].key = callers[a].key =>
                  ~callers[c].hit /\ callers[c].task # 0
                    /\ callers[c].entry \notin {callers[a].entry, callers[b].entry}

\* both fetches have completed and the earlier target is submitted again
C5_Witness ==
  \E a, b, c \in Callers :
    /\ IntentOnlyDiffers(a, b)
    /\ callerOutcome(DS, a).status = "fulfilled"
    /\ callerOutcome(DS, b).status = "fulfilled"
    /\ callers[c].entryBefore = callers[b].entry /\ callers[c].key = callers[a].key
    /\ callers[c].settledBefore
    /\ ~callers[c].hit /\ callers[c].task # 0

\* the rows the i-th histogram call returned
rowsOf(part) == IF part.hits.defined THEN part.hits.rows ELSE <<>>

\* the number of rows of the partitions before the i-th
RECURSIVE rowsBefore(_, _)
rowsBefore(parts, i) ==
  IF i = 1 THEN 0 ELSE rowsBefore(parts, i - 1) + Len(rowsOf(parts[i - 1]))

\* rows is rows(P1) followed by rows(P2) ... followed by rows(Pn)
InPartitionOrder(rows, parts) ==
  /\ Len(rows) = rowsBefore(parts, Len(parts) + 1)
  /\ \A i \in 1..Len(parts) : \A k \in 1..Len(rowsOf(parts[i])) :
       rows[rowsBefore(parts, i) + k] = rowsOf(parts[i])[k]

\* the resolution of task t fanned out over n >= 1 partitions
FannedOut(t) == Len(tasks[t].parts) >= 1

\* every histogram call of the fan-out of task t has succeeded
AllPartitionsOk(t) ==
  \A i \in 1..Len(tasks[t].parts) : tasks[t].parts[i].status = "ok"

\* C7: when all n partition calls of a histogram resolution have succeeded, the i-th
\* call is the call for the i-th discovered partition and the rows of the frame are
\* rows(P1) followed by rows(P2) ... rows(Pn), in whatever order the calls completed.
C7_MergeInPartitionOrder ==
  \A t \in Tasks :
    (FannedOut(t) /\ tasks[t].pc = "done" /\ AllPartitionsOk(t)) =>
      /\ tasks[t].ret.status = "fulfilled"
      /\ InPartitionOrder(tasks[t].ret.frame.rows, tasks[t].parts)
      /\ \A i \in 1..Len(tasks[t].parts) :
           /\ tasks[t].sent[i + 1].kind = "histogram"
           /\ i > 1 => tasks[t].sent[i + 1].payload.start_time
                         = tasks[t].sent[i].payload.end_time
           /\ \A k \in 1..Len(rowsOf(tasks[t].parts[i])) :
                rowsOf(tasks[t].parts[i])[k]
                  = 100 * t + tasks[t].sent[i + 1].payload.start_time + k - 1

\* the call for the second partition completed before the call for the first
C7_Witness ==
  \E t \in Tasks :
    /\ Len(tasks[t].parts) >= 2 /\ tasks[t].pc = "done" /\ AllPartitionsOk(t)
    /\ tasks[t].parts[2].order < tasks[t].parts[1].order
    /\ rowsOf(tasks[t].parts[1]) # <<>> /\ rowsOf(tasks[t].parts[2]) # <<>>
    /\ tasks[t].ret.status = "fulfilled"

\* C8: while a partition call of a fan-out is outstanding and none has failed, neither
\* the caller nor the handle has a frame; the success frame exists only when every
\* call has succeeded and holds the rows of all partitions; when a call has failed the
\* caller and the handle hold the empty frame, with no row of any partition.
C8_NoPartialMerge ==
  \A t \in Tasks :
    FannedOut(t) =>
      LET parts == tasks[t].parts
          failed == \E i \in 1..Len(parts) : parts[i].status = "fail"
      IN /\ tasks[t].pc \in {"histograms", "done"}
         /\ tasks[t].pc = "histograms" =>
              /\ ~failed /\ ~AllPartitionsOk(t)
              /\ tasks[t].ret.status = "pending"
              /\ entries[tasks[t].entry].handle.status = "pending"
         /\ tasks[t].pc = "done" =>
              /\ tasks[t].ret.status = "fulfilled"
              /\ entries[tasks[t].entry].handle = tasks[t].ret
              /\ failed \/ AllPartitionsOk(t)
              /\ failed => tasks[t].ret.frame.rows = <<>>
              /\ ~failed => InPartitionOrder(tasks[t].ret.frame.rows, parts)

\* one partition call returned rows and another one failed afterwards
C8_Witness ==
  \E t \in Tasks :
    /\ tasks[t].pc = "done"
    /\ \E i, j \in 1..Len(tasks[t].parts) :
         /\ tasks[t].parts[i].status = "ok" /\ rowsOf(tasks[t].parts[i]) # <<>>
         /\ tasks[t].parts[j].status = "fail"
    /\ tasks[t].ret.status = "fulfilled" /\ tasks[t].ret.frame.rows = <<>>

\* task t went through the partitioned histogram path and one of its calls failed
PartitionPathFailed(t) ==
  /\ tasks[t].sent[1].kind = "partition"
  /\ tasks[t].pc = "done"
  /\ tasks[t].callFailed

ShapedAsLogs(t) ==
  ~(modeOf(tasks[t].target) = "graph" \/ includesLogVolume(tasks[t].target.refId))

ExpectedMessage(err) ==
  LET base == IF err.hasData /\ logsErrorMessage(err.code) # "" THEN logsErrorMessage(err.code)
              ELSE IF err.hasData THEN err.message
              ELSE err.statusText
  IN base \o (IF err.error_detail # "" THEN " ( " \o err.error_detail \o " ) " ELSE "")

\* C10: when the search call of the direct logs path fails, the caller is rejected
\* with an error whose message is the mapped message of the error code, else the
\* backend's message, else the status text, followed by the detail in parentheses.
C10_NormalizedError ==
  \A t \in Tasks :
    (tasks[t].sent[1].kind = "search" /\ tasks[t].pc = "done" /\ tasks[t].callFailed) =>
      /\ tasks[t].ret.status = "rejected"
      /\ tasks[t].ret.error.kind = "Error"
      /\ tasks[t].ret.error.message = ExpectedMessage(tasks[t].err)

Batches == 1..Len(batches)

\* the pipeline whose result caller c receives: its own, or the one of the entry it hit
pipelineOf(c) ==
  IF callers[c].task # 0 THEN callers[c].task
  ELSE CHOOSE t \in tasksOf(callers[c].entry) : TRUE

\* C11: every target of a batch is processed, in the order submitted, before any
\* pipeline of the batch completes, and when query() fulfils it yields one frame per
\* target, the i-th frame being the result of the i-th target's resolution, in
\* whatever order the pipelines completed.
C11_FramesInSubmissionOrder ==
  \A b \in Batches :
    LET cs == callersOf(DS, b)
        out == queryOutcome(DS, b)
    IN /\ ~batches[b].threw =>
            /\ Len(cs) = batches[b].size
            /\ \A i \in 1..Len(cs) :
                 /\ callers[cs[i]].target = batches[b].targets[i]
                 /\ ~callers[cs[i]].hit =>
                      /\ callers[cs[i]].task # 0
                      /\ Len(tasks[callers[cs[i]].task].sent) >= 1
       /\ out.status = "fulfilled" =>
            /\ Len(out.data) = batches[b].size
            /\ \A i \in 1..Len(out.data) :
                 /\ out.data[i].refId = batches[b].targets[i].refId
                 /\ out.data[i] = tasks[pipelineOf(cs[i])].ret.frame
                 /\ RowsOfTask(out.data[i], pipelineOf(cs[i]))

\* a batch of two targets whose second pipeline completed first, both with rows
C11_Witness ==
  \E b \in Batches :
    LET cs == callersOf(DS, b)
    IN /\ batches[b].size = 2 /\ Len(cs) = 2
       /\ callers[cs[1]].task # 0 /\ callers[cs[2]].task # 0
       /\ tasks[callers[cs[2]].task].doneAt < tasks[callers[cs[1]].task].doneAt
       /\ queryOutcome(DS, b).status = "fulfilled"
       /\ queryOutcome(DS, b).data[1].rows # <<>>
       /\ queryOutcome(DS, b).data[2].rows # <<>>
       /\ queryOutcome(DS, b).data[1] # queryOutcome(DS, b).data[2]

\* the kinds of the backend calls task t has issued, in order
kindsOf(t) == [k \in 1..Len(tasks[t].sent) |-> tasks[t].sent[k].kind]

PlainLogsTarget(t) ==
  modeOf(tasks[t].target) # "graph" /\ ~includesLogVolume(tasks[t].target.refId)

C14_IneligibleIsEmpty ==
  \A t \in Tasks :
    (tasks[t].discovery.answered /\ ~tasks[t].discovery.is_histogram_eligible) =>
      /\ kindsOf(t) = <<"partition">>
      /\ tasks[t].pc = "done"
      /\ tasks[t].ret.status = "fulfilled"
      /\ tasks[t].ret.frame.rows = <<>>

\* partition discovery of task t succeeded and returned no partition
NoPartitions(t) == tasks[t].discovery.answered /\ tasks[t].discovery.partitions = <<>>

\* C15: when partition discovery succeeds and returns no partition, exactly one
\* histogram call is issued, with the start and end time of the base request and no
\* discovered interval, and when it succeeds its rows are the rows of the result.
C15_SingleFallbackRequest ==
  \A t \in Tasks :
    NoPartitions(t) =>
      /\ kindsOf(t) = <<"partition", "histogram">>
      /\ tasks[t].sent[2].payload.start_time = tasks[t].sent[1].payload.start_time
      /\ tasks[t].sent[2].payload.end_time = tasks[t].sent[1].payload.end_time
      /\ \E r \in TimeRanges :
           /\ tasks[t].sent[2].payload.start_time = r.startTimeInMicro
           /\ tasks[t].sent[2].payload.end_time = r.endTimeInMirco
      /\ tasks[t].sent[2].payload.histogram_interval = Absent
      /\ tasks[t].pc \in {"fallback", "done"}
      /\ tasks[t].pc = "fallback" => tasks[t].ret.status = "pending"
      /\ (tasks[t].pc = "done" /\ ~tasks[t].callFailed) =>
           /\ tasks[t].ret.status = "fulfilled"
           /\ tasks[t].ret.frame.rows = rowsOf([hits |-> tasks[t].answer])
           /\ entries[tasks[t].entry].handle = tasks[t].ret

\* the single histogram call over the whole range came back with rows
C15_Witness ==
  \E t \in Tasks :
    /\ NoPartitions(t) /\ tasks[t].pc = "done" /\ ~tasks[t].callFailed
    /\ tasks[t].answer.defined /\ tasks[t].answer.rows # <<>>
    /\ tasks[t].ret.status = "fulfilled"
    /\ tasks[t].ret.frame.rows = tasks[t].answer.rows

\* partition discovery of task t returned n >= 1 partitions for an eligible range
EligiblePartitions(t) ==
  /\ tasks[t].discovery.answered
  /\ tasks[t].discovery.is_histogram_eligible
  /\ tasks[t].discovery.partitions # <<>>

\* the histogram calls of task t are one per discovered partition, in order, each with
\* the bounds of its partition and the discovered interval
OnePerPartition(t) ==
  LET found == tasks[t].discovery
  IN /\ Len(tasks[t].sent) = 1 + Len(found.partitions)
     /\ Len(tasks[t].parts) = Len(found.partitions)
     /\ \A i \in 1..Len(found.partitions) :
          /\ tasks[t].sent[1 + i].kind = "histogram"
          /\ tasks[t].sent[1 + i].payload.start_time = found.partitions[i][1]
          /\ tasks[t].sent[1 + i].payload.end_time = found.partitions[i][2]
          /\ tasks[t].sent[1 + i].payload.histogram_interval = found.histogram_interval
          /\ tasks[t].sent[1 + i].payload.sql = tasks[t].sent[1].payload.sql

\* no call of the partitioned path carries a size
NoSizeCap(t) ==
  tasks[t].sent[1].kind = "partition" =>
    \A k \in 1..Len(tasks[t].sent) : tasks[t].sent[k].payload.size = Absent

\* in the step in which discovery answers with n >= 1 partitions of an eligible range,
\* all n histogram calls are issued, none has completed, and the i-th is the base
\* request as it is then, with the bounds of partition i and the discovered interval
IssuedTogether(t) ==
  (tasks[t].pc = "discovery" /\ EligiblePartitions(t)') =>
    /\ tasks'[t].pc = "histograms"
    /\ \A i \in 1..Len(tasks'[t].parts) :
         /\ tasks'[t].parts[i].status = "pending"
         /\ tasks'[t].sent[1 + i].payload =
              [reqHeap[tasks[t].req] EXCEPT
                 !.start_time = tasks'[t].discovery.partitions[i][1],
                 !.end_time = tasks'[t].discovery.partitions[i][2],
                 !.histogram_interval = tasks'[t].discovery.histogram_interval]

\* C16: when discovery returns n >= 1 partitions for an eligible range, exactly n
\* histogram calls are issued, one per partition and all in the step in which the
\* discovery answer arrives; the i-th is the base request with the bounds of the i-th
\* partition and the discovered histogram_interval; no call of the partitioned path,
\* discovery or histogram, carries a size.
C16_OneRequestPerPartition ==
  /\ [](\A t \in Tasks : NoSizeCap(t) /\ (EligiblePartitions(t) => OnePerPartition(t)))
  /\ [][\A t \in Tasks : IssuedTogether(t)]_vars

\* two partitions discovered and both histogram calls outstanding
C16_Witness ==
  \E t \in Tasks :
    /\ EligiblePartitions(t) /\ Len(tasks[t].discovery.partitions) = 2
    /\ tasks[t].pc = "histograms"
    /\ \A i \in 1..2 : tasks[t].parts[i].status = "pending"
    /\ Len(tasks[t].sent) = 3
    /\ tasks[t].sent[2].payload.start_time # tasks[t].sent[3].payload.start_time

\* C17: once the pipeline started for a cache entry has completed, on the direct logs
\* path or on the partitioned path, with a result or with a failure, the entry's
\* isFetching flag is false.
C17_FetchingCleared ==
  \A t \in Tasks :
    tasks[t].pc = "done" => ~entries[tasks[t].entry].isFetching

\* what a slot holds: the object it refers to, and that object's key, handle and flag
slotView(d, isHistogramQuery) ==
  LET e == slotOf(d, isHistogramQuery)
  IN [object |-> e, requestQuery |-> d.entries[e].requestQuery,
      handle |-> d.entries[e].handle, isFetching |-> d.entries[e].isFetching,
      data |-> d.entries[e].data]

\* the states one step of a resolution leads to from the current state, for the
\* targets that carry the volume prefix (volume = TRUE) or those that do not: the
\* arrival of such a target, and every completion of a backend call of its pipeline
resolutionSteps(volume) ==
  {processSingleQuery(DS, target, timestamps, app, 0).d :
     target \in {x \in Targets : includesLogVolume(x.refId) = volume},
     timestamps \in TimeRanges, app \in Apps}
  \cup UNION {
     CASE tasks[t].pc = "search" ->
            {processLogsQuerySettled(DS, t, r) : r \in SearchResponses(t, BackendErrors)}
       [] tasks[t].pc = "discovery" ->
            {partitionSettled(DS, t, r) :
               r \in PartitionResponses(tasks[t].sent[1].payload, MaxPartitions, BOOLEAN)}
       [] tasks[t].pc = "histograms" ->
            UNION {{histogramSettled(DS, t, i, r) :
                      r \in HistogramResponses(t, tasks[t].sent[1 + i].payload)} :
                   i \in {j \in 1..Len(tasks[t].parts) : tasks[t].parts[j].status = "pending"}}
       [] tasks[t].pc = "fallback" ->
            {fallbackSettled(DS, t, r) : r \in HistogramResponses(t, tasks[t].sent[2].payload)}
       [] OTHER -> {} :
     t \in {u \in Tasks : slotIsHistogram(u) = volume}}

\* C18: every step of the resolution of a volume-prefixed target (miss, hit,
\* completion or failure of a backend call) leaves the primary slot's object, key,
\* handle and isFetching as they were, and every step of the resolution of a target
\* without the prefix leaves the histogram slot's as they were.
C18_SlotsIndependent ==
  \A volume \in BOOLEAN :
    \A d \in resolutionSteps(volume) :
      slotView(d, ~volume) = slotView(DS, ~volume)

\* both slots hold an entry: the primary one a settled result, the histogram one a
\* resolution that failed
C18_Witness ==
  /\ entries[cachedLogsQuery].data /\ entries[cachedHistogramQuery].data
  /\ \E t \in tasksOf(cachedHistogramQuery) : tasks[t].pc = "done" /\ tasks[t].callFailed
  /\ \E t \in tasksOf(cachedLogsQuery) :
       /\ tasks[t].pc = "done" /\ tasks[t].ret.status = "fulfilled"
       /\ entries[cachedLogsQuery].handle = tasks[t].ret
       /\ ~entries[cachedLogsQuery].isFetching

\* caller c resolved a volume target after a target without the prefix had been built
PairedVolume(c) ==
  /\ includesLogVolume(callers[c].target.refId)
  /\ \E b \in Callers : b < c /\ ~includesLogVolume(callers[b].target.refId)

\* the last caller before c whose target has no volume prefix
lastPlainBefore(c) ==
  CHOOSE b \in Callers :
    /\ b < c /\ ~includesLogVolume(callers[b].target.refId)
    /\ \A a \in Callers : (a < c /\ ~includesLogVolume(callers[a].target.refId)) => a <= b

\* the request built for caller b, without its size and in the context mode
retainedFor(b) == [callers[b].key.reqData EXCEPT !.size = Absent, !.sql_mode = "context"]

\* C19: a volume target resolved after a request was built for a target without the
\* prefix uses, for its cache key and for each of its backend calls, the most recently
\* built such request: its query text and its start and end time (the bounds of a
\* partition inside them for a per-partition call), no size, and the query mode
\* "context"; and resolving a volume target leaves the side-channel reference as it is.
C19_SideChannelReuse ==
  /\ \A c \in Callers :
       PairedVolume(c) =>
         LET used == retainedFor(lastPlainBefore(c))
             t == callers[c].task
         IN /\ callers[c].key.reqData = used
            /\ ~callers[c].hit =>
                 /\ tasks[t].sent[1] = Call("partition", used)
                 /\ \A k \in 2..Len(tasks[t].sent) :
                      LET call == tasks[t].sent[k].payload
                      IN /\ call.sql = used.sql
                         /\ call.size = Absent /\ call.sql_mode = "context"
                         /\ call.start_time >= used.start_time
                         /\ call.end_time <= used.end_time
                         /\ NoPartitions(t) => call = used
  /\ \A target \in SideTargets, timestamps \in SideRanges :
       includesLogVolume(target.refId) =>
         processSingleQuery(DS, target, timestamps, "explore", 0).d.histogramQuery
           = histogramQuery

\* two different requests built one after the other, then the volume target, whose
\* pipeline has completed with rows
C19_Witness ==
  \E a, b, c \in Callers :
    /\ a < b /\ b < c
    /\ ~includesLogVolume(callers[a].target.refId)
    /\ ~includesLogVolume(callers[b].target.refId)
    /\ callers[a].key.reqData.start_time # callers[b].key.reqData.start_time
    /\ PairedVolume(c) /\ ~callers[c].hit
    /\ callers[c].key.reqData.start_time = callers[b].key.reqData.start_time
    /\ tasks[callers[c].task].pc = "done"
    /\ tasks[callers[c].task].ret.status = "fulfilled"
    /\ tasks[callers[c].task].ret.frame.rows # <<>>

\* C20: a failure inside buildQuery does not abort the pass: every target of a batch
\* is resolved with a usable request, and query() does not throw.
C20_BuilderNeverAborts ==
  \A b \in Batches :
    /\ ~batches[b].threw
    /\ Len(callersOf(DS, b)) = batches[b].size
    /\ \A c \in Callers : callers[c].batch = b => callers[c].key.reqData.defined
\* C21: only a transport fault fails a resolution: a pipeline none of whose backend
\* calls failed, whatever the shape of the answers (a response without a hits array
\* included), ends with a frame, on the direct logs path and on the histogram path.
C21_OnlyTransportFaultsFail ==
  \A t \in Tasks :
    (tasks[t].pc = "done" /\ ~tasks[t].callFailed) => tasks[t].ret.status = "fulfilled"

\* the direct logs pipeline of entry e whose search call failed
FailedSearchOf(e) ==
  {t \in tasksOf(e) : tasks[t].sent[1].kind = "search" /\ tasks[t].pc = "done"
                        /\ tasks[t].callFailed}

\* C28: when the direct logs fetch of a key fails, a caller served from that key's
\* entry (attached while the fetch was pending, or arriving afterwards) is rejected
\* with the same normalized error as the caller that started the fetch.
C28_SharedNormalizedError ==
  \A c \in Callers :
    callers[c].hit =>
      \A t \in FailedSearchOf(callers[c].entry) : callerOutcome(DS, c) = tasks[t].ret

\* c arrived with the key its slot held, after the direct logs fetch of that entry
\* had failed and rejected the entry's handle
FindsFailed(c) ==
  /\ FindsSettled(c)
  /\ entries[callers[c].entryBefore].handle.status = "rejected"
  /\ FailedSearchOf(callers[c].entryBefore) # {}

\* C30: a failed direct logs fetch is cached like a success: a target resubmitted
\* with the key of the failed fetch while the slot still holds that key starts no
\* pipeline and is rejected again; between two fetches of one key on the primary
\* slot of which the first failed, a target with a different key has been submitted.
C30_FailureIsCached ==
  /\ \A c \in Callers :
       FindsFailed(c) =>
         /\ callers[c].hit
         /\ callers[c].task = 0
         /\ Cardinality(tasksOf(callers[c].entryBefore)) = 1
         /\ callerOutcome(DS, c).status = "rejected"
  /\ \A c1, c2 \in Callers :
       (/\ c1 < c2
        /\ callers[c1].key = callers[c2].key
        /\ ~callers[c1].hit /\ ~callers[c2].hit
        /\ FailedSearchOf(callers[c1].entry) # {}) =>
         \E c \in (c1 + 1)..(c2 - 1) : callers[c].key # callers[c1].key

C30_Witness ==
  \E c1, c2, c3 \in Callers :
    /\ c1 < c2 /\ c2 < c3
    /\ FindsFailed(c2)
    /\ callerOutcome(DS, c2).status = "rejected"
    /\ callers[c3].key # callers[c1].key

\* the rows task t obtained through the partitioned histogram path: the merged hits
\* of its fan-out, or the hits of its single call over the whole range
ObtainedRows(t) ==
  IF tasks[t].parts # <<>> THEN combinedHits(tasks[t].parts, Len(tasks[t].parts))
  ELSE tasks[t].answer.rows

\* task t ran the partitioned path to its end with rows and without a failure
ShapedHistogramRows(t) ==
  /\ tasks[t].sent[1].kind = "partition" /\ Len(tasks[t].sent) > 1
  /\ tasks[t].pc = "done" /\ ~tasks[t].callFailed
  /\ tasks[t].ret.status = "fulfilled" /\ tasks[t].ret.frame.rows # <<>>

\* C29 as stated: the rows obtained through the partitioned histogram path are
\* shaped in graph mode, whatever the display intent and the context.
C29_AlwaysGraphMode ==
  \A t \in Tasks :
    ShapedHistogramRows(t) =>
      /\ tasks[t].ret.frame.mode = "graph"
      /\ tasks[t].ret.frame.rows = ObtainedRows(t)

\* C29, amended: the rows obtained through the partitioned histogram path are shaped
\* in graph mode when the display intent is graph or the target is a volume target,
\* and in logs mode for every other target routed to that path, in every context.
C29_ShapedByIntent ==
  \A t \in Tasks :
    ShapedHistogramRows(t) =>
      /\ tasks[t].ret.frame.mode =
           IF modeOf(tasks[t].target) = "graph" \/ includesLogVolume(tasks[t].target.refId)
             THEN "graph" ELSE "logs"
      /\ tasks[t].ret.frame.rows = ObtainedRows(t)

\* a graph target in the panel editor whose merged partition rows became a graph frame
C29_Witness ==
  \E t \in Tasks :
    /\ ShapedHistogramRows(t)
    /\ tasks[t].app = "panel-editor"
    /\ tasks[t].parts # <<>>
    /\ modeOf(tasks[t].target) = "graph" /\ ~includesLogVolume(tasks[t].target.refId)
    /\ tasks[t].ret.frame.mode = "graph"

\* buildQuery has been applied
Built == applied.fn = "buildQuery" /\ applied.done

\* C25 as stated: the built request's size is 300 in every context but explore, and
\* 0 in the explore context.
C25_SizeZeroInExplore ==
  Built => applied.req.size = IF applied.app = "explore" THEN 0 ELSE 300

\* C25, amended: the built request's size is the sample count 300 in the explore
\* context and 0 in every other context.
C25_SizeZeroOutsideExplore ==
  Built => applied.req.size = IF applied.app = "explore" THEN 300 ELSE 0

C25_Witness ==
  Built /\ applied.app = "panel-editor" /\ applied.req.size = 0 /\ ~applied.queryData.sqlMode

\* the rewritten filter of the built request: its sql after the template, the
\* stream name and " WHERE "
RewrittenFilter == SubSeq(applied.req.sql, 11, Len(applied.req.sql))

OperatorChars == {"=", "!", "<", ">"}

\* position i of text lies outside every quoted literal
OutsideLiteral(text, i) ==
  \A q \in Quotes : Cardinality({k \in 1..(i - 1) : text[k] = q}) % 2 = 0

\* every comparison operator outside a quoted literal has a blank on both sides
OperatorsSpaced(text) ==
  \A i \in 1..Len(text) :
    (text[i] \in OperatorChars /\ OutsideLiteral(text, i)) =>
      /\ i > 1 /\ text[i - 1] \in OperatorChars \cup {" "}
      /\ i < Len(text) /\ text[i + 1] \in OperatorChars \cup {" "}

\* C27: in expression mode the built filter has a blank on both sides of every
\* comparison operator outside a quoted literal, and with the known field status the
\* expression  status=200 and service="a=b"  becomes
\* "status" = 200 and service = "a=b".
C27_FilterRewrite ==
  (Built /\ ~applied.queryData.sqlMode /\ ~isBlank(applied.queryData.query)) =>
    /\ OperatorsSpaced(RewrittenFilter)
    /\ (applied.queryData.query = StatusAndService /\ applied.names = <<FieldStatus>>) =>
         RewrittenFilter = StatusAndServiceSpaced

\* convertToTimeMs has been applied to a number
Converted == applied.fn = "convertToTimeMs" /\ applied.done

\* a - b of two numbers that lie less than a million apart
difference(a, b) == (a.hi - b.hi) * 1000000 + (a.lo - b.lo)

\* C23: a number above 500 billion is divided down to whole milliseconds, a number
\* below 10 billion is multiplied by 1000, and a number from 10 billion to 500
\* billion (both included) is returned unchanged.
C23_TimeNormalization ==
  Converted =>
    LET v == applied.value
        r == applied.result
    IN /\ r.kind = "number"
       /\ IF greater(v, Num(500000, 0))
            THEN difference(v, timesThousand(r)) \in 0..999
          ELSE IF greater(Num(10000, 0), v)
            THEN r.lo % 1000 = 0 /\ floorOfThousandth(r) = v
          ELSE r = v

\* the value at each threshold is returned unchanged, its neighbours are converted
C23_Witness ==
  /\ Converted
  /\ applied.value = Num(10000, 0)
  /\ applied.result = Num(10000, 0)

\* C24: 1700000000000 is returned unchanged, and 1700000000 and 1700000000000000
\* both become 1700000000000.
C24_PresentDayExamples ==
  Converted =>
    /\ applied.value = Num(1700000, 0) => applied.result = Num(1700000, 0)
    /\ applied.value = Num(1700, 0) => applied.result = Num(1700000, 0)
    /\ applied.value = Num(1700000000, 0) => applied.result = Num(1700000, 0)

\* the names of the columns of the shaped frame, in their order
ColumnNames == [k \in 1..Len(applied.frame.fields) |-> applied.frame.fields[k].name]

ShapedLogs == applied.fn = "getLogsDataFrame" /\ applied.done
ShapedGraph == applied.fn = "getGraphDataFrame" /\ applied.done

\* C22: for an empty row set the logs shaper returns the columns Time, Content and
\* one per stream field, and the graph shaper, called with the histogram timestamp
\* column as the dispatch layer calls it, returns Time and the placeholder columns
\* zo_sql_num and x_axis_1; every column is empty and the frame's length is 0.
C22_EmptyFrameSchema ==
  (applied.done /\ applied.fn \in {"getLogsDataFrame", "getGraphDataFrame"}
     /\ applied.data = <<>>) =>
    /\ applied.frame.length = 0
    /\ \A k \in 1..Len(applied.frame.fields) : applied.frame.fields[k].values = <<>>
    /\ ShapedLogs => ColumnNames = <<"Time", "Content">> \o applied.streamFields
    /\ (ShapedGraph /\ applied.timestampColumn = HistogramTimestampColumn) =>
         ColumnNames = <<"Time", "zo_sql_num", "x_axis_1">>

C22_Witness ==
  /\ ShapedGraph /\ applied.data = <<>>
  /\ applied.timestampColumn = HistogramTimestampColumn
  /\ Len(applied.frame.fields) = 3

\* C26: a logs frame has the columns Time, Content and then one per stream field in
\* the order of the stream fields; every column has one value per row, the column
\* of a stream field holding the row's value for it; a key of a row that is no
\* stream field has no column of its own and is a member of the row's Content.
C26_LogsFrameColumns ==
  ShapedLogs =>
    LET data == applied.data
        fields == applied.frame.fields
    IN /\ ColumnNames = <<"Time", "Content">> \o applied.streamFields
       /\ \A k \in 1..Len(fields) : Len(fields[k].values) = Len(data)
       /\ \A k \in 1..Len(applied.streamFields), r \in 1..Len(data) :
            fields[k + 2].values[r] = get(data[r], applied.streamFields[k])
       /\ \A r \in 1..Len(data) : \A m \in 1..Len(data[r]) :
            /\ \E n \in 1..Len(fields[2].values[r].members) :
                 fields[2].values[r].members[n] = data[r][m]
            /\ (\A k \in 1..Len(applied.streamFields) :
                  applied.streamFields[k] # data[r][m][1]) =>
                 \A k \in 1..Len(fields) : fields[k].name # data[r][m][1]

\* two rows, the second with a key that is no stream field
C26_Witness ==
  /\ ShapedLogs
  /\ Len(applied.data) = 2
  /\ applied.streamFields = <<"host", "level">>
  /\ get(applied.data[2], "extra") = Str("x")
  /\ Len(applied.frame.fields) = 4

\* the handle of entry e, once settled, holds what a pipeline started for e produced
SettledByOwnPipeline(e) ==
  entries[e].handle.status # "pending" =>
    \E t \in tasksOf(e) :
      \/ /\ entries[e].handle.status = "fulfilled"
         /\ entries[e].handle = tasks[t].ret
         /\ RowsOfTask(entries[e].handle.frame, t)
      \/ /\ entries[e].handle.status = "rejected"
         /\ tasks[t].ret.status = "rejected"
         /\ tasks[t].callFailed => entries[e].handle.error = tasks[t].err

\* a step of pipeline t (a backend call of t completes) leaves every entry other
\* than the entry t was started for as it is
OwnEntryOnly(t) ==
  (Len(tasks') = Len(tasks) /\ tasks'[t] # tasks[t]) =>
    \A e \in Entries : e # tasks[t].entry => entries'[e] = entries[e]

\* C31: the handle of an entry is only ever settled with the outcome of a pipeline
\* started for that entry, and the completion and the cleanup of a pipeline change
\* no entry but its own: not the key, the handle or the isFetching flag of the entry
\* that replaced it in the slot.
C31_DiscardedFetchIsolated ==
  /\ [](\A e \in Entries : SettledByOwnPipeline(e))
  /\ [][\A t \in Tasks : OwnEntryOnly(t)]_vars

\* K1's fetch completed after K2 had replaced it, while K2's fetch was in flight
C31_Witness ==
  \E a, b \in Callers :
    /\ a < b /\ Replaces(b) /\ callers[b].entryBefore = callers[a].entry
    /\ callers[b].inFlightBefore
    /\ ~callers[a].hit /\ tasks[callers[a].task].pc = "done"
    /\ ~callers[b].hit /\ tasks[callers[b].task].pc # "done"
    /\ entries[callers[a].entry].handle.status # "pending"
    /\ entries[callers[b].entry].handle.status = "pending"
    /\ entries[callers[b].entry].isFetching

\* the search call of a direct logs pipeline started for a target of batch b failed
DirectLogsTransportFailure(b) ==
  \E c \in Callers :
    /\ callers[c].batch = b /\ ~callers[c].hit /\ callers[c].task # 0
    /\ tasks[callers[c].task].sent[1].kind = "search"
    /\ tasks[callers[c].task].callFailed

\* a target of batch b on the direct logs path was rejected, for whatever reason
DirectLogsFailure(b) ==
  \E c \in Callers :
    /\ callers[c].batch = b
    /\ ~usesPartitionPath(callers[c].target, callers[c].app)
    /\ callerOutcome(DS, c).status = "rejected"

\* C32: query() rejects when the search call of one direct logs target of the batch
\* failed, and fulfils, once every target is resolved, when no direct logs target of
\* the batch failed.
C32_RejectsOnlyOnDirectLogsFailure ==
  \A b \in Batches :
    /\ DirectLogsTransportFailure(b) => queryOutcome(DS, b).status = "rejected"
    /\ (~DirectLogsFailure(b) /\ queryOutcome(DS, b).status # "pending") =>
         queryOutcome(DS, b).status = "fulfilled"

\* caller c resolved the volume target of X after a target X without the prefix
DerivedVolume(c) ==
  /\ includesLogVolume(callers[c].target.refId)
  /\ \E x \in Callers :
       x < c /\ callers[x].target.refId = <<"", callers[c].target.refId[2]>>

\* the last caller before c that resolved the target the volume target of c derives from
sourceOf(c) ==
  CHOOSE x \in Callers :
    /\ x < c /\ callers[x].target.refId = <<"", callers[c].target.refId[2]>>
    /\ \A a \in Callers :
         (a < c /\ callers[a].target.refId = callers[x].target.refId) => a <= x

\* C33: the request used for a volume target log-volume-X carries the query text and
\* the start and end time of the request built for the target X it derives from,
\* whatever other targets were resolved between the two.
C33_VolumeCarriesOwnSource ==
  \A c \in Callers :
    DerivedVolume(c) =>
      LET own == callers[sourceOf(c)].key.reqData
          used == callers[c].key.reqData
      IN /\ used.sql = own.sql
         /\ used.start_time = own.start_time
         /\ used.end_time = own.end_time
         /\ ~callers[c].hit =>
              \A k \in 1..Len(tasks[callers[c].task].sent) :
                tasks[callers[c].task].sent[k].payload.sql = own.sql

\* the pipeline of task t has answered with a logs frame
AnsweredWithLogs(t) ==
  /\ tasks[t].ret.status = "fulfilled"
  /\ tasks[t].ret.frame.mode = "logs"

\* the stream fields sf give both the query text of the first request task t sent and
\* the columns of the frame it answered with
BuiltAndShapedWith(t, sf) ==
  LET sent == tasks[t].sent[1].payload
      timestamps == [startTimeInMicro |-> sent.start_time, endTimeInMirco |-> sent.end_time]
  IN /\ buildQuery(tasks[t].target, timestamps, sf, tasks[t].app).sql = sent.sql
     /\ tasks[t].ret.frame.fields = <<"Time", "Content">> \o sf

\* C34: the stream fields that shape a target's logs frame are the stream fields its
\* request was built with, also when updateStreamFields ran while its fetch was in
\* flight.
C34_StreamFieldsStableForResolution ==
  \A t \in Tasks :
    AnsweredWithLogs(t) => \E sf \in StreamFieldSets : BuiltAndShapedWith(t, sf)

\* the positions of the columns named Time in the shaped frame
TimeColumns == {k \in 1..Len(applied.frame.fields) : applied.frame.fields[k].name = "Time"}

\* the field the graph shaper takes the time from: the first time-like field of the
\* first row, or the timestamp column it was called with
TimeFieldOfApplied ==
  IF detectTimestampField(applied.data) # "" THEN detectTimestampField(applied.data)
  ELSE applied.timestampColumn

\* C35: a graph frame, of an empty or a non-empty row set, has exactly one column
\* named Time, of type time; for a non-empty row set it is the column of the first
\* time-like field of the first row, or of the timestamp column the shaper was called
\* with when no field is time-like.
C35_ExactlyOneTimeColumn ==
  ShapedGraph =>
    /\ Cardinality(TimeColumns) = 1
    /\ \A k \in TimeColumns :
         /\ applied.frame.fields[k].type = "time"
         /\ Len(applied.data) > 0 => keysOf(applied.data[1])[k] = TimeFieldOfApplied

====
